---- MODULE Spec2Model ----
(***************************************************************************)
(* A model of the golc3 LC-3 virtual machine (package machine): the        *)
(* machine state, the memory read and write gates with their memory-mapped *)
(* devices, the stack helpers, the privilege / priority / condition-flag   *)
(* helpers, exception entry and Machine.Step.                              *)
(*                                                                         *)
(* All words are 16-bit unsigned integers (0..65535); arithmetic wraps.    *)
(* Memory is the 65 536-word array, kept as a finite map that lists only   *)
(* the non-zero words (Reset zeroes the array).                            *)
(***************************************************************************)
EXTENDS Integers, Sequences, FiniteSets, TLC

VARIABLES
    Registers,   \* MachineState.Registers  [8]uint16
    Program,     \* MachineState.Program
    Procstat,    \* MachineState.Procstat
    Stack,       \* MachineState.Stack (the saved counterpart of R6)
    Memory,      \* MachineState.Memory, non-zero words only
    Keyboard,    \* bytes pending on Devices.Keyboard, oldest first
    Display,     \* bytes flushed to Devices.Display so far, oldest first
    hasKeyboard, \* Devices != nil && Devices.Keyboard != nil
    hasDisplay,  \* Devices != nil && Devices.Display != nil
    crashed,     \* the process has panicked (no recover anywhere)
    Debugger,    \* mc.Debugger: attached or not, Break, Breakpoints, Watchpoints
    shouldexit,  \* the flag that ends the step loop of the command
    inREPL,      \* control is inside the loop of debugREPL
    r6IsSSP,     \* history: R6 currently holds the supervisor stack pointer
    requested,   \* history: a break was requested by signal and not yet served
    asm,         \* the assembler: the locals of AssembleLC3Source
    log,         \* history: what the last action did
    steps        \* number of actions applied to the machine so far

vars == <<Registers, Program, Procstat, Stack, Memory, Keyboard, Display,
          hasKeyboard, hasDisplay, crashed, Debugger, shouldexit, inREPL,
          r6IsSSP, requested, asm, log, steps>>

----------------------------------------------------------------------------
(* Bounds of the exploration.                                              *)

MaxSteps == 3

MaxPending == 2

MaxGateOps == 3

----------------------------------------------------------------------------
(* Program constants.                                                      *)

Word == 65536

FLAG_POS == 1

FLAG_ZERO == 2

FLAG_NEG == 4

MEMSPACE_INT_TABLE == 256

MEMSPACE_SUPERVISOR == 512

MEMSPACE_USER == 12288

MEMSPACE_DEVICES == 65024

DEV_KBSR == 65024

DEV_KBDR == 65026

DEV_DSR == 65028

DEV_DDR == 65030

OP_ADD == 1

OP_AND == 5

OP_BR == 0

OP_JMP == 12

OP_JSR == 4

OP_LD == 2

OP_LDI == 10

OP_LDR == 6

OP_LEA == 14

OP_NOT == 9

OP_RTI == 8

OP_ST == 3

OP_STI == 11

OP_STR == 7

OP_TRAP == 15

OP_RES == 13

PrivBit == 32768

----------------------------------------------------------------------------
(* uint16 arithmetic.                                                      *)

Add16(a, b) == (a + b) % Word

Sub16(a, b) == (a + Word - (b % Word)) % Word

Shr(x, n) == x \div (2 ^ n)

Shl16(x, n) == (x * (2 ^ n)) % Word

Not16(x) == (Word - 1) - x

RECURSIVE BitAnd(_, _)
BitAnd(x, y) ==
    IF x = 0 \/ y = 0 THEN 0
    ELSE (x % 2) * (y % 2) + 2 * BitAnd(x \div 2, y \div 2)

RECURSIVE BitOr(_, _)
BitOr(x, y) ==
    IF x = 0 THEN y
    ELSE IF y = 0 THEN x
    ELSE (IF (x % 2) + (y % 2) > 0 THEN 1 ELSE 0)
         + 2 * BitOr(x \div 2, y \div 2)

\* encoding.SignExtend
SignExtend(value, bitcount) ==
    IF BitAnd(Shr(value, bitcount - 1), 1) = 1
    THEN BitOr(value, Shl16(Word - 1, bitcount))
    ELSE value

\* encoding.ZeroExtend: the guarded statement ORs in (0x0000 << bitcount)
ZeroExtend(value, bitcount) ==
    IF BitAnd(Shr(value, bitcount - 1), 1) = 1
    THEN BitOr(value, Shl16(0, bitcount))
    ELSE value

----------------------------------------------------------------------------
(* Memory array as a finite map of its non-zero words.                     *)

MemAt(mem, a) == IF a \in DOMAIN mem THEN mem[a] ELSE 0

MemSet(mem, a, v) ==
    IF v = 0
    THEN [x \in (DOMAIN mem) \ {a} |-> mem[x]]
    ELSE [x \in (DOMAIN mem) \cup {a} |-> IF x = a THEN v ELSE mem[x]]

\* A map given as a set of <<address, value>> pairs with distinct addresses.
MemOf(pairs) ==
    [a \in {p[1] : p \in {q \in pairs : q[2] # 0}} |->
        (CHOOSE p \in pairs : p[1] = a)[2]]

---------------------------------------------------------------------------------------------------------------------------------------------------
(* The machine as one record, so that the methods of Machine become        *)
(* operators from machine to machine.  ret is the value the last read      *)
(* returned; the fields dr, raised, writes, reads and pops collect what    *)
(* one action did and end up in log.  dbg is the debugger, script the      *)
(* debugger sessions the user will type in this action, hooks lists the    *)
(* calls of the debugger hooks, fired counts the calls of the debugger's   *)
(* handlers, reported the messages printed by the REPL and quit holds the   *)
(* machine as the first `quit` of the action found it.                     *)

Machine ==
    [Registers |-> Registers, Program |-> Program, Procstat |-> Procstat,
     Stack |-> Stack, Memory |-> Memory, Keyboard |-> Keyboard,
     Display |-> Display, crashed |-> crashed, r6IsSSP |-> r6IsSSP,
     dbg |-> Debugger, shouldexit |-> shouldexit, inREPL |-> inREPL,
     requested |-> requested,
     ret |-> 0, dr |-> <<>>, raised |-> <<>>, writes |-> <<>>,
     reads |-> <<>>, pops |-> <<>>,
     script |-> <<>>, hooks |-> <<>>, fired |-> 0,
     reported |-> 0, quit |-> <<>>]

----------------------------------------------------------------------------
(* The debugger REPL (cmd/golc3/debug.go).  A command line is a sequence   *)
(* of tokens; a token is a word, a hexadecimal literal (0x####, x####) or  *)
(* a decimal literal.  Printing is modelled by counting the messages.      *)

\* the machine as an action found it
Snapshot(m) ==
    [Registers |-> m.Registers, Program |-> m.Program,
     Procstat |-> m.Procstat, Stack |-> m.Stack, Memory |-> m.Memory,
     Keyboard |-> m.Keyboard, Display |-> m.Display]

W(text) == [kind |-> "word", text |-> text, value |-> 0]

Hex(v) == [kind |-> "hex", text |-> "", value |-> v]

Dec(v) == [kind |-> "dec", text |-> "", value |-> v]

\* encoding.DecodeHex: an error unless the token is a hexadecimal literal
\* that fits 16 bits
DecodeHex(tok) ==
    [ok |-> tok.kind = "hex" /\ tok.value \in 0..(Word - 1),
     value |-> IF tok.kind = "hex" /\ tok.value \in 0..(Word - 1)
               THEN tok.value ELSE 0]

\* strconv.ParseInt(s, 10, 64): an error unless the token is a decimal
\* literal
ParseInt(tok) ==
    [ok |-> tok.kind = "dec", value |-> IF tok.kind = "dec" THEN tok.value ELSE 0]

\* strings.ToUpper on the register names in use
ToUpper(text) ==
    CASE text = "r6" -> "R6"
      [] text = "pc" -> "PC"
      [] OTHER -> text

ReadWatch == "Read"

WriteWatch == "Write"

ReadWriteWatch == "ReadWrite"

\* log.Println / fmt.Printf: one more message to the user
report(m) == [m EXCEPT !.reported = @ + 1]

\* a run-time panic; nothing recovers it
panic(m) == [m EXCEPT !.crashed = TRUE]

\* a removal that always drops the last element
SwapRemoveLast(s, i) == SubSeq(s, 1, Len(s) - 1)

\* s[i] = s[len(s)-1]; s = s[:len(s)-1], i counted from 0
SwapRemove(s, i) ==
    [k \in 1..(Len(s) - 1) |-> IF k = i + 1 THEN s[Len(s)] ELSE s[k]]

\* debugBreak.  The default case prints args[0] after args was cut to the
\* arguments of the sub-command: with none the index is out of range.
debugBreak(m, args0) ==
    LET args1 == IF args0 = <<>> THEN <<W("l")>> ELSE args0
        cmd   == Head(args1).text
        args  == Tail(args1)
    IN  CASE cmd \in {"a", "add"} ->
               IF Len(args) # 1 THEN report(m)
               ELSE IF ~DecodeHex(args[1]).ok THEN report(m)
               ELSE IF \E i \in 1..Len(m.dbg.Breakpoints) :
                          m.dbg.Breakpoints[i] = DecodeHex(args[1]).value
               THEN m
               ELSE report([m EXCEPT !.dbg.Breakpoints =
                               Append(@, DecodeHex(args[1]).value)])
          [] cmd \in {"l", "ls", "list"} ->
               IF Len(args) # 0 THEN report(m)
               ELSE [m EXCEPT !.reported = @ + Len(m.dbg.Breakpoints)]
          [] cmd \in {"r", "rm", "remove"} ->
               IF Len(args) # 1 THEN report(m)
               ELSE IF ~ParseInt(args[1]).ok THEN report(m)
               ELSE IF ParseInt(args[1]).value < 0
                       \/ ParseInt(args[1]).value >= Len(m.dbg.Breakpoints)
               THEN report(m)
               ELSE report([m EXCEPT !.dbg.Breakpoints =
                               SwapRemove(@, ParseInt(args[1]).value)])
          [] cmd = "clear" ->
               report([m EXCEPT !.dbg.Breakpoints = <<>>])
          [] OTHER ->
               IF args = <<>> THEN panic(m) ELSE report(m)

\* the type named by the last argument of `watch add`
WatchTypeOf(tok) ==
    CASE tok.text \in {"r", "read"} -> <<ReadWatch>>
      [] tok.text \in {"w", "write"} -> <<WriteWatch>>
      [] tok.text \in {"rw", "rwrite", "readwrite"} -> <<ReadWriteWatch>>
      [] OTHER -> <<>>

\* debugWatch
debugWatch(m, args0) ==
    LET cmd  == Head(args0).text
        args == Tail(args0)
    IN  IF args0 = <<>> THEN report(m)
        ELSE
        CASE cmd \in {"a", "add"} ->
               IF Len(args) # 2 THEN report(m)
               ELSE IF ~DecodeHex(args[1]).ok THEN report(m)
               ELSE IF WatchTypeOf(args[2]) = <<>> THEN report(m)
               ELSE LET w == [Addr |-> DecodeHex(args[1]).value,
                              Type |-> WatchTypeOf(args[2])[1]]
                    IN  IF \E i \in 1..Len(m.dbg.Watchpoints) :
                               m.dbg.Watchpoints[i] = w
                        THEN m
                        ELSE report([m EXCEPT !.dbg.Watchpoints =
                                        Append(@, w)])
          [] cmd \in {"l", "ls", "list"} ->
               IF Len(args) # 0 THEN report(m)
               ELSE [m EXCEPT !.reported = @ + Len(m.dbg.Watchpoints)]
          [] cmd \in {"r", "rm", "remove"} ->
               IF Len(args) # 1 THEN report(m)
               ELSE IF ~ParseInt(args[1]).ok THEN report(m)
               ELSE IF ParseInt(args[1]).value < 0
                       \/ ParseInt(args[1]).value >= Len(m.dbg.Watchpoints)
               THEN report(m)
               ELSE report([m EXCEPT !.dbg.Watchpoints =
                               SwapRemove(@, ParseInt(args[1]).value)])
          [] cmd = "clear" ->
               report([m EXCEPT !.dbg.Watchpoints = <<>>])
          [] OTHER -> report(m)

\* debugReg
debugReg(m, args) ==
    IF Len(args) > 0
    THEN IF Len(args) # 2 THEN report(m)
         ELSE IF ~DecodeHex(args[2]).ok THEN report(m)
         ELSE LET name  == ToUpper(args[1].text)
                  value == DecodeHex(args[2]).value
              IN  CASE name = "R0" -> report([m EXCEPT !.Registers[0] = value])
                    [] name = "R6" -> report([m EXCEPT !.Registers[6] = value])
                    [] name = "PC" -> report([m EXCEPT !.Program = value])
                    [] name = "PS" -> report([m EXCEPT !.Procstat = value])
                    [] OTHER -> report(m)
    ELSE report(m)

\* debugJump, with no symbol table loaded
debugJump(m, args) ==
    IF Len(args) # 1 THEN report(m)
    ELSE IF DecodeHex(args[1]).ok
         THEN report([m EXCEPT !.Program = DecodeHex(args[1]).value])
         ELSE report(m)

\* debugSet
debugSet(m, args) ==
    IF Len(args) # 2 THEN report(m)
    ELSE IF ~DecodeHex(args[1]).ok THEN report(m)
    ELSE IF ~DecodeHex(args[2]).ok THEN report(m)
    ELSE report([m EXCEPT !.Memory = MemSet(@, DecodeHex(args[1]).value,
                                            DecodeHex(args[2]).value)])

\* MachineState.Reset
ResetRegisters == [i \in 0..7 |-> IF i = 6 THEN MEMSPACE_USER ELSE 0]

\* binary.BigEndian.Uint16
BigEndianUint16(scratch) == scratch[1] * 256 + scratch[2]

\* an *os.File as LoadBin reads it: nil (open is FALSE), or the bytes of
\* the file and the offset of the next read
NoFile == [open |-> FALSE, bytes |-> <<>>, pos |-> 0]

\* the number of calls of reader.Read(scratch) in the loop of LoadBin that
\* return two bytes: the loop ends at io.EOF, at a read of one byte, at the
\* error a nil file returns, or when index reaches (1<<16)-1
WordsRead(file) ==
    IF ~file.open THEN 0
    ELSE IF (Len(file.bytes) - file.pos) \div 2 < Word - 1
         THEN (Len(file.bytes) - file.pos) \div 2
         ELSE Word - 1

\* the file after the loop of LoadBin; nothing seeks it back
FileAfterLoad(file) ==
    IF ~file.open THEN file
    ELSE IF WordsRead(file) = Word - 1
         THEN [file EXCEPT !.pos = @ + 2 * (Word - 1)]
         ELSE [file EXCEPT !.pos = Len(file.bytes)]

\* Machine.LoadBin(reader) with an *os.File as the reader: Reset, then the
\* words read from the offset of the file go to Memory[0], Memory[1], ...
LoadBinFile(m, file) ==
    [m EXCEPT !.Registers = ResetRegisters,
              !.Program = MEMSPACE_SUPERVISOR,
              !.Procstat = PrivBit,
              !.Stack = MEMSPACE_DEVICES,
              !.r6IsSSP = TRUE,
              !.Memory =
                  MemOf({<<i, BigEndianUint16(
                                  <<file.bytes[file.pos + 2 * i + 1],
                                    file.bytes[file.pos + 2 * i + 2]>>)>> :
                            i \in 0..(WordsRead(file) - 1)})]

\* one iteration of the loop of debugREPL on a non-empty line
replCommand(m, line) ==
    LET cmd  == Head(line).text
        args == Tail(line)
    IN  CASE cmd \in {"b", "bp", "break", "breakpoint"} -> debugBreak(m, args)
          [] cmd \in {"w", "wp", "watch", "watchpoint"} -> debugWatch(m, args)
          [] cmd \in {"r", "reg", "register", "registers"} -> debugReg(m, args)
          [] cmd \in {"j", "jmp", "jump"} -> debugJump(m, args)
          [] cmd = "set" -> debugSet(m, args)
          [] cmd \in {"c", "continue"} ->
               [m EXCEPT !.dbg.Break = FALSE, !.inREPL = FALSE]
          [] cmd \in {"n", "next"} ->
               [m EXCEPT !.dbg.Break = TRUE, !.inREPL = FALSE]
          [] cmd \in {"q", "quit", "exit"} ->
               [m EXCEPT !.shouldexit = TRUE, !.inREPL = FALSE,
                         !.quit = IF @ = <<>> THEN <<Snapshot(m)>> ELSE @]
          [] cmd = "clear" -> m
          [] cmd = "reset" ->
               [LoadBinFile(m, m.dbg.Source) EXCEPT
                    !.dbg.Source = FileAfterLoad(@)]
          [] OTHER -> report(m)

\* the signal goroutine: dbg.Break = true
signalBreak(m) == [m EXCEPT !.dbg.Break = TRUE, !.requested = TRUE]

Interrupt == <<[kind |-> "signal", text |-> "", value |-> 0]>>

RECURSIVE runSession(_, _)
\* the loop of debugREPL after a command: n is the machine the command left
afterCommand(n, lines) ==
    IF ~n.inREPL THEN n ELSE runSession(n, lines)

\* the loop of debugREPL over the lines of one session; the input ends
\* (scanner.Scan() fails) after the last line.  An Interrupt among the lines
\* is a signal handled by the signal goroutine while the REPL waits.
runSession(m, lines) ==
    IF m.crashed THEN m
    ELSE IF lines = <<>> THEN [m EXCEPT !.shouldexit = TRUE, !.inREPL = FALSE]
    ELSE IF Head(lines) = Interrupt
    THEN runSession(signalBreak(m), Tail(lines))
    ELSE afterCommand(replCommand(m, Head(lines)), Tail(lines))

\* debugREPL: the user types the next session of the script (`continue`
\* when the script has run out)
debugREPL(m) ==
    LET lines == IF m.script = <<>> THEN <<<<W("c")>>>> ELSE Head(m.script)
        rest  == IF m.script = <<>> THEN <<>> ELSE Tail(m.script)
    IN  IF m.crashed THEN m
        ELSE runSession([m EXCEPT !.script = rest, !.inREPL = TRUE], lines)

\* handleBreak: the REPL is entered from the step hook, which serves a
\* pending request
handleBreak(m) == debugREPL([m EXCEPT !.fired = @ + 1, !.requested = FALSE])

handleRead(m, addr) == debugREPL([m EXCEPT !.fired = @ + 1])

handleWrite(m, addr) == debugREPL([m EXCEPT !.fired = @ + 1])

----------------------------------------------------------------------------
(* The hooks of package debugger, called from Machine.Step, Machine.read   *)
(* and Machine.write when a debugger is attached.                          *)

\* what hooks records of one call of a hook: the debugger as the hook found
\* it and the number of handler calls it made
HookLog(m, r, hook, addr) ==
    [hook |-> hook, addr |-> addr, Break |-> m.dbg.Break,
     requested |-> m.requested,
     bps |-> m.dbg.Breakpoints, wps |-> m.dbg.Watchpoints,
     fired |-> r.fired - m.fired]

\* the machine r a hook returns, with the record of the call
hooked(m, r, hook, addr) ==
    [r EXCEPT !.hooks = Append(@, HookLog(m, r, hook, addr))]

RECURSIVE breakLoop(_, _)
\* for _, breakpoint := range dbg.Breakpoints
breakLoop(m, bps) ==
    IF bps = <<>> \/ m.crashed THEN m
    ELSE IF m.Program = Head(bps) THEN handleBreak(m)
    ELSE breakLoop(m, Tail(bps))

\* Debugger.Step looking at the breakpoints only
DebuggerStepBreakpointsOnly(m) ==
    IF ~m.dbg.attached \/ m.crashed THEN m
    ELSE hooked(m, breakLoop(m, m.dbg.Breakpoints), "step", m.Program)

\* Debugger.Step
DebuggerStep(m) ==
    IF ~m.dbg.attached \/ m.crashed THEN m
    ELSE hooked(m, IF m.dbg.Break THEN handleBreak(m)
                   ELSE breakLoop(m, m.dbg.Breakpoints), "step", m.Program)

RECURSIVE watchLoop(_, _, _, _)
\* for _, watchpoint := range dbg.Watchpoints, skipping one type
watchLoop(m, wps, addr, skip) ==
    IF wps = <<>> \/ m.crashed THEN m
    ELSE IF Head(wps).Type = skip THEN watchLoop(m, Tail(wps), addr, skip)
    ELSE IF addr = Head(wps).Addr
    THEN IF skip = WriteWatch THEN handleRead(m, addr)
                              ELSE handleWrite(m, addr)
    ELSE watchLoop(m, Tail(wps), addr, skip)

\* Debugger.Read skipping the watchpoints of type Read
DebuggerReadSkippingRead(m, addr) ==
    IF ~m.dbg.attached \/ m.crashed THEN m
    ELSE hooked(m, watchLoop(m, m.dbg.Watchpoints, addr, ReadWatch),
                "read", addr)

\* Debugger.Read
DebuggerRead(m, addr) ==
    IF ~m.dbg.attached \/ m.crashed THEN m
    ELSE hooked(m, watchLoop(m, m.dbg.Watchpoints, addr, WriteWatch),
                "read", addr)

\* Debugger.Write
DebuggerWrite(m, addr) ==
    IF ~m.dbg.attached \/ m.crashed THEN m
    ELSE hooked(m, watchLoop(m, m.dbg.Watchpoints, addr, ReadWatch),
                "write", addr)

----------------------------------------------------------------------------
(* The memory gates.                                                       *)

\* the end of Machine.read: h is the machine the debugger hook returned,
\* the value is taken from memory (0 for DDR)
readValue(h, addr) ==
    LET v == IF addr # DEV_DDR THEN MemAt(h.Memory, addr) ELSE 0
    IN  IF h.crashed THEN h
        ELSE [h EXCEPT !.ret = v,
                       !.reads = Append(@, [addr |-> addr, value |-> v])]

\* Machine.read with a plain load for KBSR (no device transaction)
readMutant(m, addr) ==
    IF m.crashed THEN m ELSE readValue(DebuggerRead(m, addr), addr)

\* Machine.read: the machine after the read, the returned value in ret.
\* ReadByte yields the oldest pending byte, or io.EOF when none is pending;
\* the display buffer is flushed after every byte, so Available() > 0.
read(m, addr) ==
    LET e == IF addr = DEV_KBSR
             THEN IF hasKeyboard /\ Len(m.Keyboard) > 0
                  THEN [m EXCEPT
                          !.Memory = MemSet(MemSet(@, DEV_KBSR, PrivBit),
                                            DEV_KBDR, Head(m.Keyboard)),
                          !.Keyboard = Tail(@)]
                  ELSE [m EXCEPT !.Memory = MemSet(@, DEV_KBSR, 0)]
             ELSE IF addr = DEV_DSR
             THEN [m EXCEPT !.Memory =
                       MemSet(@, DEV_DSR, IF hasDisplay THEN PrivBit ELSE 0)]
             ELSE m
    IN  IF m.crashed THEN m ELSE readValue(DebuggerRead(e, addr), addr)

\* Machine.write without the KBDR guard
writeUnguarded(m, addr, value) ==
    IF m.crashed THEN m
    ELSE IF addr = DEV_DDR /\ ~hasDisplay THEN [m EXCEPT !.crashed = TRUE]
    ELSE LET d == IF addr = DEV_DDR
                  THEN [m EXCEPT !.Display = Append(@, value % 256)]
                  ELSE m
         IN  DebuggerWrite(
                 [d EXCEPT !.Memory = MemSet(@, addr, value),
                           !.writes = Append(@, [addr |-> addr,
                                                 value |-> value])], addr)

\* Machine.write sending the high byte to the display
writeHighByte(m, addr, value) ==
    IF m.crashed THEN m
    ELSE IF addr = DEV_DDR /\ ~hasDisplay THEN [m EXCEPT !.crashed = TRUE]
    ELSE LET d == IF addr = DEV_DDR
                  THEN [m EXCEPT !.Display = Append(@, Shr(value, 8))]
                  ELSE m
             s == IF addr # DEV_KBDR
                  THEN [d EXCEPT !.Memory = MemSet(@, addr, value)]
                  ELSE d
         IN  DebuggerWrite(
                 [s EXCEPT !.writes = Append(@, [addr |-> addr,
                                                 value |-> value])], addr)

\* Machine.write.  With no display attached the WriteByte call dereferences
\* nil and the process panics before anything is stored.
write(m, addr, value) ==
    IF m.crashed THEN m
    ELSE IF addr = DEV_DDR /\ ~hasDisplay THEN [m EXCEPT !.crashed = TRUE]
    ELSE LET d == IF addr = DEV_DDR
                  THEN [m EXCEPT !.Display = Append(@, value % 256)]
                  ELSE m
             s == IF addr # DEV_KBDR
                  THEN [d EXCEPT !.Memory = MemSet(@, addr, value)]
                  ELSE d
         IN  DebuggerWrite(
                 [s EXCEPT !.writes = Append(@, [addr |-> addr,
                                                 value |-> value])], addr)

\* Machine.push moving R6 by one word
pushByOne(m, value) ==
    IF m.crashed THEN m
    ELSE LET r6 == Sub16(m.Registers[6], 1)
         IN  write([m EXCEPT !.Registers[6] = r6], r6, value)

\* Machine.push
push(m, value) ==
    IF m.crashed THEN m
    ELSE LET r6 == Sub16(m.Registers[6], 2)
         IN  write([m EXCEPT !.Registers[6] = r6], r6, value)

\* the end of Machine.pop: r is the machine after the read at addr
popped(r, addr) ==
    [r EXCEPT !.Registers[6] = Add16(@, 2),
              !.pops = Append(@, [addr |-> addr, value |-> r.ret])]

\* Machine.pop: the machine after the pop, the popped value in ret
pop(m) ==
    IF m.crashed THEN m
    ELSE popped(read(m, m.Registers[6]), m.Registers[6])

\* Machine.getPrivilege
getPrivilege(m) == Shr(m.Procstat, 15) = 1

\* Machine.setPrivilege.  r6IsSSP follows the swap: it records which of the
\* two stack pointers R6 holds.
setPrivilege(m, privileged) ==
    LET s == IF privileged # getPrivilege(m)
             THEN [m EXCEPT !.Registers[6] = m.Stack,
                            !.Stack = m.Registers[6],
                            !.r6IsSSP = ~@]
             ELSE m
    IN  IF m.crashed THEN m
        ELSE IF privileged
        THEN [s EXCEPT !.Procstat = BitOr(@, PrivBit)]
        ELSE [s EXCEPT !.Procstat = BitAnd(@, Not16(PrivBit))]

\* Machine.getPriority
getPriority(m) == BitAnd(Shr(m.Procstat, 8), 7)

\* Machine.setPriority with the mask 0x7 left unshifted
setPriorityLowMask(m, value) ==
    IF m.crashed THEN m
    ELSE [m EXCEPT !.Procstat =
              BitOr(BitAnd(@, Not16(7 * 256 + 7)), Shl16(BitAnd(value, 7), 8))]

\* Machine.setPriority (value is at most 7 at every call site)
setPriority(m, value) ==
    IF m.crashed THEN m
    ELSE [m EXCEPT !.Procstat =
              BitOr(BitAnd(@, Not16(7 * 256)), Shl16(BitAnd(value, 7), 8))]

\* mc.Program = <the value r returned>
programFromRet(r) == [r EXCEPT !.Program = r.ret]

\* mc.Procstat = <the value r returned>
procstatFromRet(r) == [r EXCEPT !.Procstat = r.ret]

\* mc.push(mc.Program)
pushProgram(a) == push(a, a.Program)

\* mc.Program = mc.read(MEMSPACE_INT_TABLE | vector)
readVector(d, vector) ==
    IF d.crashed THEN d
    ELSE programFromRet(read(d, BitOr(MEMSPACE_INT_TABLE, vector)))

\* Machine.raiseException enabling privilege before the two pushes
raiseExceptionSwapFirst(m, vector, priority) ==
    LET n == [m EXCEPT !.raised = Append(@,
                 [vector |-> vector, priority |-> priority,
                  procstat |-> m.Procstat, program |-> m.Program])]
    IN  IF m.crashed THEN m
        ELSE readVector(
                 setPriority(
                     pushProgram(push(setPrivilege(n, TRUE), m.Procstat)),
                     priority),
                 vector)

\* Machine.raiseException
raiseException(m, vector, priority) ==
    LET n == [m EXCEPT !.raised = Append(@,
                 [vector |-> vector, priority |-> priority,
                  procstat |-> m.Procstat, program |-> m.Program])]
    IN  IF m.crashed THEN m
        ELSE readVector(
                 setPrivilege(
                     setPriority(pushProgram(push(n, m.Procstat)), priority),
                     TRUE),
                 vector)

\* Machine.setFlags without the reset of the old condition bits
setFlagsNoReset(m, value) ==
    IF m.crashed THEN m
    ELSE [m EXCEPT !.Procstat =
             IF value = 0 THEN BitOr(@, FLAG_ZERO)
             ELSE IF Shr(value, 15) = 1 THEN BitOr(@, FLAG_NEG)
             ELSE BitOr(@, FLAG_POS)]

\* Machine.setFlags
setFlags(m, value) ==
    IF m.crashed THEN m
    ELSE LET p == BitAnd(m.Procstat, Not16(7))
         IN  [m EXCEPT !.Procstat =
                 IF value = 0 THEN BitOr(p, FLAG_ZERO)
                 ELSE IF Shr(value, 15) = 1 THEN BitOr(p, FLAG_NEG)
                 ELSE BitOr(p, FLAG_POS)]

----------------------------------------------------------------------------
(* Machine.Step: fetch, decode, execute, keyboard interrupt.  Each exec*   *)
(* operator is one case of the opcode switch, applied to the machine g     *)
(* after the fetch and the increment of Program.                           *)

Opcode(instruction) == Shr(instruction, 12)

\* bits 11..9: DR of the ALU and load forms, SR of the stores
Field9(instruction) == BitAnd(Shr(instruction, 9), 7)

\* bits 8..6: SR1, SR or BaseR
Field6(instruction) == BitAnd(Shr(instruction, 6), 7)

\* the PC-relative address taken from the address of the instruction itself
PCOffset9FromInstruction(g, instruction) ==
    Add16(Sub16(g.Program, 1), SignExtend(BitAnd(instruction, 511), 9))

PCOffset9(g, instruction) ==
    Add16(g.Program, SignExtend(BitAnd(instruction, 511), 9))

BaseOffset6(g, instruction) ==
    Add16(g.Registers[Field6(instruction)],
          SignExtend(BitAnd(instruction, 63), 6))

\* Registers[dest] = val; setFlags(Registers[dest])
loadDR(m, instruction, val) ==
    setFlags([m EXCEPT !.Registers[Field9(instruction)] = val,
                       !.dr = <<val>>], val)

execADD(g, instruction) ==
    IF BitAnd(Shr(instruction, 5), 1) = 1
    THEN loadDR(g, instruction,
                Add16(g.Registers[Field6(instruction)],
                      SignExtend(BitAnd(instruction, 31), 5)))
    ELSE loadDR(g, instruction,
                Add16(g.Registers[Field6(instruction)],
                      g.Registers[BitAnd(instruction, 7)]))

execAND(g, instruction) ==
    IF BitAnd(Shr(instruction, 5), 1) = 1
    THEN loadDR(g, instruction,
                BitAnd(g.Registers[Field6(instruction)],
                       SignExtend(BitAnd(instruction, 31), 5)))
    ELSE loadDR(g, instruction,
                BitAnd(g.Registers[Field6(instruction)],
                       g.Registers[BitAnd(instruction, 3)]))

\* OP_BR without the case of an instruction with no condition bits
execBRFlagsOnly(g, instruction) ==
    IF BitAnd(Field9(instruction), BitAnd(g.Procstat, 7)) > 0
    THEN [g EXCEPT !.Program = PCOffset9(g, instruction)]
    ELSE g

execBR(g, instruction) ==
    IF Field9(instruction) = 0
       \/ BitAnd(Field9(instruction), BitAnd(g.Procstat, 7)) > 0
    THEN [g EXCEPT !.Program = PCOffset9(g, instruction)]
    ELSE g

\* OP_JMP clearing privilege whenever bit 0 is set, without the check
execJMPUnchecked(g, instruction) ==
    LET j == [g EXCEPT !.Program = g.Registers[Field6(instruction)]]
    IN  IF BitAnd(instruction, 1) = 1
        THEN setPrivilege(j, FALSE)
        ELSE j

execJMP(g, instruction) ==
    LET j == [g EXCEPT !.Program = g.Registers[Field6(instruction)]]
    IN  IF BitAnd(instruction, 1) = 1
        THEN IF getPrivilege(j)
             THEN setPrivilege(j, FALSE)
             ELSE raiseException(j, 0, getPriority(j))
        ELSE j

execJSR(g, instruction) ==
    LET l == [g EXCEPT !.Registers[7] = g.Program]
    IN  IF BitAnd(Shr(instruction, 11), 1) = 1
        THEN [l EXCEPT !.Program =
                 Add16(@, SignExtend(BitAnd(instruction, 2047), 11))]
        ELSE [l EXCEPT !.Program = l.Registers[Field6(instruction)]]

\* Registers[dest] = <the value r returned>; setFlags(Registers[dest])
loadRet(r, instruction) == loadDR(r, instruction, r.ret)

\* mc.read(<the value r returned>)
readRet(r) == read(r, r.ret)

\* mc.write(<the value r returned>, Registers[src])
writeAtRet(r, instruction) ==
    write(r, r.ret, r.Registers[Field9(instruction)])

execLD(g, instruction) ==
    loadRet(read(g, PCOffset9(g, instruction)), instruction)

execLDI(g, instruction) ==
    loadRet(readRet(read(g, PCOffset9(g, instruction))), instruction)

execLDR(g, instruction) ==
    loadRet(read(g, BaseOffset6(g, instruction)), instruction)

execLEA(g, instruction) ==
    loadDR(g, instruction, PCOffset9(g, instruction))

execNOT(g, instruction) ==
    loadDR(g, instruction, Not16(g.Registers[Field6(instruction)]))

\* OP_RTI with the two pops taken before the privilege is cleared
execRTIPopFirst(g, instruction) ==
    IF getPrivilege(g)
    THEN procstatFromRet(setPrivilege(pop(programFromRet(pop(g))), FALSE))
    ELSE raiseException(g, 0, getPriority(g))

execRTI(g, instruction) ==
    IF getPrivilege(g)
    THEN procstatFromRet(pop(programFromRet(pop(setPrivilege(g, FALSE)))))
    ELSE raiseException(g, 0, getPriority(g))

execST(g, instruction) ==
    write(g, PCOffset9(g, instruction), g.Registers[Field9(instruction)])

execSTI(g, instruction) ==
    writeAtRet(read(g, PCOffset9(g, instruction)), instruction)

execSTR(g, instruction) ==
    write(g, BaseOffset6(g, instruction), g.Registers[Field9(instruction)])

\* OP_TRAP saving the return address on the stack instead of in R7
execTRAPPushing(g, instruction) ==
    programFromRet(read(pushProgram(setPrivilege(g, TRUE)),
                        ZeroExtend(BitAnd(instruction, 255), 8)))

execTRAP(g, instruction) ==
    LET t == setPrivilege(g, TRUE)
    IN  programFromRet(read([t EXCEPT !.Registers[7] = t.Program],
                            ZeroExtend(BitAnd(instruction, 255), 8)))

\* the default case: the reserved opcode
execRES(g, instruction) ==
    raiseException(g, 1, getPriority(g))

\* the opcode switch
execute(g, instruction) ==
    CASE Opcode(instruction) = OP_ADD  -> execADD(g, instruction)
      [] Opcode(instruction) = OP_AND  -> execAND(g, instruction)
      [] Opcode(instruction) = OP_BR   -> execBR(g, instruction)
      [] Opcode(instruction) = OP_JMP  -> execJMP(g, instruction)
      [] Opcode(instruction) = OP_JSR  -> execJSR(g, instruction)
      [] Opcode(instruction) = OP_LD   -> execLD(g, instruction)
      [] Opcode(instruction) = OP_LDI  -> execLDI(g, instruction)
      [] Opcode(instruction) = OP_LDR  -> execLDR(g, instruction)
      [] Opcode(instruction) = OP_LEA  -> execLEA(g, instruction)
      [] Opcode(instruction) = OP_NOT  -> execNOT(g, instruction)
      [] Opcode(instruction) = OP_RTI  -> execRTI(g, instruction)
      [] Opcode(instruction) = OP_ST   -> execST(g, instruction)
      [] Opcode(instruction) = OP_STI  -> execSTI(g, instruction)
      [] Opcode(instruction) = OP_STR  -> execSTR(g, instruction)
      [] Opcode(instruction) = OP_TRAP -> execTRAP(g, instruction)
      [] OTHER                         -> execRES(g, instruction)

\* the keyboard interrupt check admitting priority 4
keyboardInterruptNested(x) ==
    IF ~x.crashed /\ hasKeyboard /\ Len(x.Keyboard) > 0 /\ getPriority(x) <= 4
    THEN raiseException(x, 128, 4)
    ELSE x

\* the keyboard interrupt check at the end of Machine.Step; Peek(1) succeeds
\* exactly when a byte is pending
keyboardInterrupt(x) ==
    IF ~x.crashed /\ hasKeyboard /\ Len(x.Keyboard) > 0 /\ getPriority(x) < 4
    THEN raiseException(x, 128, 4)
    ELSE x

\* Machine.Step from the fetch f to the end of the opcode switch: increment
\* of Program, execute
decodeExecute(f) == execute([f EXCEPT !.Program = Add16(@, 1)], f.ret)

\* what the history variable records of one step of the machine m, from the
\* fetch f, the machine x at the end of the opcode switch, the machine k
\* after the keyboard interrupt check and the machine r after the debugger
\* hook: the address and word of the instruction, the machine before the
\* step, the machine at the end of the opcode switch, what the step did,
\* Program after the keyboard interrupt check, the calls of the debugger
\* hooks, and the machine as a `quit` entered during the step found it
StepLog(m, f, x, k, r) ==
    [kind |-> "step",
     at |-> m.Program,
     instr |-> f.ret,
     opcode |-> Opcode(f.ret),
     pre |-> Snapshot(m),
     exec |-> [Registers |-> x.Registers, Program |-> x.Program,
               Procstat |-> x.Procstat, Stack |-> x.Stack,
               Memory |-> x.Memory, crashed |-> x.crashed,
               raised |-> x.raised, writes |-> x.writes,
               reads |-> x.reads],
     dr |-> r.dr, raised |-> r.raised, writes |-> r.writes,
     reads |-> r.reads, pops |-> r.pops,
     end |-> k.Program, hooks |-> r.hooks, quit |-> r.quit]

Install(r) ==
    /\ Registers' = r.Registers
    /\ Program' = r.Program
    /\ Procstat' = r.Procstat
    /\ Stack' = r.Stack
    /\ Memory' = r.Memory
    /\ Keyboard' = r.Keyboard
    /\ Display' = r.Display
    /\ crashed' = r.crashed
    /\ r6IsSSP' = r.r6IsSSP
    /\ Debugger' = r.dbg
    /\ shouldexit' = r.shouldexit
    /\ inREPL' = r.inREPL
    /\ requested' = r.requested

\* Machine.Step on the machine m: fetch, opcode switch, keyboard interrupt
\* check, debugger hook
MachineStep(m) ==
    \E f \in {read(m, m.Program)} :
        \E x \in {decodeExecute(f)} :
            \E k \in {keyboardInterrupt(x)} :
                \E r \in {DebuggerStep(k)} :
                    Install(r) /\ log' = StepLog(m, f, x, k, r)

\* one iteration of the loop `for !shouldexit { mc.Step() }`
Step ==
    /\ ~crashed
    /\ ~shouldexit
    /\ steps < MaxSteps
    /\ MachineStep(Machine)
    /\ steps' = steps + 1
    /\ UNCHANGED <<hasKeyboard, hasDisplay, asm>>

\* the environment: a byte arrives on the keyboard endpoint
KeyBytes == {102}

KeyPress ==
    /\ ~crashed
    /\ hasKeyboard
    /\ Len(Keyboard) < MaxPending
    /\ \E b \in KeyBytes : Keyboard' = Append(Keyboard, b)
    /\ log' = [kind |-> "key"]
    /\ UNCHANGED <<Registers, Program, Procstat, Stack, Memory, Display,
                   hasKeyboard, hasDisplay, crashed, Debugger, shouldexit,
                   inREPL, r6IsSSP, requested, asm, steps>>

-----
(* Initial states: a machine as LoadBin leaves it (Reset, then the image), *)
(* and a machine set up field by field after Reset, as the package's test  *)
(* harness does.  Two consecutive code words are drawn from InstrSet.      *)

InstrSet ==
    { \h1042,   \* ADD  R0, R1, R2
      \h103F,   \* ADD  R0, R0, #-1
      \h5044,   \* AND  R0, R1, R4
      \h5020,   \* AND  R0, R0, #0
      \h90BF,   \* NOT  R0, R2
      \h0401,   \* BRz  +1
      \h0801,   \* BRn  +1
      \h01FF,   \* BR   -1 (no condition bits)
      \hC1C0,   \* JMP  R7 (RET)
      \hC1C1,   \* JMPT R7 (RTT)
      \h4801,   \* JSR  +1
      \h41C0,   \* JSRR R7
      \h2001,   \* LD   R0, +1
      \hA001,   \* LDI  R0, +1
      \h6040,   \* LDR  R0, R1, #0
      \h64C0,   \* LDR  R2, R3, #0
      \h6140,   \* LDR  R0, R5, #0
      \h6100,   \* LDR  R0, R4, #0
      \h6CC0,   \* LDR  R6, R3, #0
      \h607F,   \* LDR  R0, R1, #-1
      \hE1FF,   \* LEA  R0, -1
      \h8000,   \* RTI
      \h3401,   \* ST   R2, +1
      \hB401,   \* STI  R2, +1
      \h7500,   \* STR  R2, R4, #0
      \h74C0,   \* STR  R2, R3, #0
      \h7440,   \* STR  R2, R1, #0
      \hF025,   \* TRAP x25
      \hF0FF,   \* TRAP xFF
      \hD000 }  \* reserved opcode

\* the second code word is drawn from these
SecondInstr ==
    { \h1042,   \* ADD  R0, R1, R2
      \h0401,   \* BRz  +1
      \hC1C1,   \* JMPT R7 (RTT)
      \hA001,   \* LDI  R0, +1
      \h6040,   \* LDR  R0, R1, #0
      \h8000,   \* RTI
      \hB401,   \* STI  R2, +1
      \h7500,   \* STR  R2, R4, #0
      \hF025,   \* TRAP x25
      \hD000 }  \* reserved opcode

\* vector tables and handlers common to every image
Handlers ==
    { <<\h0025, \h6003>>,   \* TRAP x25 vector
      <<\h00FF, \h6004>>,   \* TRAP xFF vector
      <<\h0100, \h6000>>,   \* privilege violation vector
      <<\h0101, \h6001>>,   \* illegal opcode vector
      <<\h0180, \h6002>>,   \* keyboard interrupt vector
      <<\h6000, \h8000>>,   \* RTI
      <<\h6001, \h8000>>,   \* RTI
      <<\h6002, \h8000>>,   \* RTI
      <<\h6003, \hC1C1>>,   \* RTT
      <<\h6004, \hC1C1>> }  \* RTT

\* two instructions at base, followed by two data words (pointers to KBSR
\* and DDR) for the PC-relative loads and stores
Code(base, i0, i1) ==
    { <<base, i0>>, <<base + 1, i1>>,
      <<base + 2, DEV_KBSR>>, <<base + 3, DEV_DDR>> }

\* user stack pointers with the two words a pop would find there
UserStacks ==
    { [sp |-> \hFE00, data |-> {}],
      [sp |-> \hFE04, data |-> {}],
      [sp |-> \hFE08, data |-> {<<\hFE08, \h3001>>, <<\hFE0A, \h0102>>}],
      [sp |-> \hFE08, data |-> {<<\hFE08, \h3001>>, <<\hFE0A, \h8402>>}] }

KeyboardSetups ==
    { [attached |-> FALSE, pending |-> <<>>],
      [attached |-> TRUE, pending |-> <<>>] }

HarnessRegisters(r6) ==
    [i \in 0..7 |->
        CASE i = 0 -> \h8001
          [] i = 1 -> DEV_KBSR
          [] i = 2 -> \h0061
          [] i = 3 -> DEV_KBDR
          [] i = 4 -> DEV_DDR
          [] i = 5 -> DEV_DSR
          [] i = 6 -> r6
          [] OTHER -> MEMSPACE_USER]

\* no assembly is under way
NoAssembly == [phase |-> "none"]

\* mc.Debugger == nil
NoDebugger ==
    [attached |-> FALSE, Break |-> FALSE, Breakpoints |-> <<>>,
     Watchpoints |-> <<>>]

InitDevices(k, d) ==
    /\ Debugger = NoDebugger
    /\ shouldexit = FALSE
    /\ inREPL = FALSE
    /\ asm = NoAssembly
    /\ requested = FALSE
    /\ hasKeyboard = k.attached
    /\ Keyboard = k.pending
    /\ hasDisplay = d
    /\ Display = <<>>

\* Machine.LoadBin: Reset, then the words of the image
InitLoaded ==
    \E i0 \in InstrSet, i1 \in SecondInstr, k \in KeyboardSetups, d \in BOOLEAN :
        /\ Registers = ResetRegisters
        /\ Program = MEMSPACE_SUPERVISOR
        /\ Procstat = PrivBit
        /\ Stack = MEMSPACE_DEVICES
        /\ Memory = MemOf(Handlers \cup Code(MEMSPACE_SUPERVISOR, i0, i1))
        /\ InitDevices(k, d)
        /\ crashed = FALSE
        /\ r6IsSSP = TRUE
        /\ log = [kind |-> "init"]
        /\ steps = 0

SupervisorStack == \h2FFD

\* the set-up of testMachineSuccess
InitHarness ==
    \E priv \in BOOLEAN, pc \in {<<4, 0>>, <<1, FLAG_ZERO>>},
       us \in UserStacks, i0 \in InstrSet, i1 \in SecondInstr,
       k \in KeyboardSetups, d \in BOOLEAN :
        /\ Registers = HarnessRegisters(IF priv THEN SupervisorStack
                                        ELSE us.sp)
        /\ Stack = (IF priv THEN us.sp ELSE SupervisorStack)
        /\ Program = MEMSPACE_USER
        /\ Procstat = (IF priv THEN PrivBit ELSE 0) + pc[1] * 256 + pc[2]
        /\ Memory = MemOf(Handlers \cup Code(MEMSPACE_USER, i0, i1)
                          \cup us.data)
        /\ InitDevices(k, d)
        /\ crashed = FALSE
        /\ r6IsSSP = priv
        /\ log = [kind |-> "init"]
        /\ steps = 0

Init == InitLoaded \/ InitHarness

Next == Step \/ KeyPress

Spec == Init /\ [][Next]_vars

---------------------------------------------------------------------------------------------------------------------------------------------------
(* The memory gates and the stack helpers on their own: SpecGates applies  *)
(* read, write, push and pop to a machine, with addresses and values drawn *)
(* from small sets, and records each application in log.                   *)

GateAddrs == {DEV_KBSR, DEV_KBDR, DEV_DDR, MEMSPACE_USER}

GateValues == {0, \h0161}

StackTops == {2, \hFE04, \hFE08}

GateKeyboards ==
    { [attached |-> FALSE, pending |-> <<>>],
      [attached |-> TRUE, pending |-> <<102, 111>>] }

InitGates ==
    \E sp \in StackTops, k \in GateKeyboards, d \in BOOLEAN :
        /\ Registers = HarnessRegisters(sp)
        /\ Program = MEMSPACE_USER
        /\ Procstat = PrivBit
        /\ Stack = MEMSPACE_DEVICES
        /\ Memory = MemOf({<<DEV_KBDR, 65>>, <<MEMSPACE_USER, \h1234>>,
                           <<\hFE0A, \h0102>>})
        /\ InitDevices(k, d)
        /\ crashed = FALSE
        /\ r6IsSSP = TRUE
        /\ log = [kind |-> "gates", addr |-> 0, value |-> 0,
                  pre |-> Snapshot(Machine), base |-> sp,
                  npush |-> 0, npop |-> 0, prevPush |-> <<>>]
        /\ steps = 0

\* the record of one gate application: its kind, the address it accessed,
\* the value written or returned, the machine before it, and the run of
\* pushes and pops so far (R6 at the start, their numbers, and the address
\* of the push immediately before this one)
GateLog(kind, addr, value) ==
    [kind |-> kind, addr |-> addr, value |-> value,
     pre |-> Snapshot(Machine), base |-> log.base,
     npush |-> log.npush + (IF kind = "push" THEN 1 ELSE 0),
     npop |-> log.npop + (IF kind = "pop" THEN 1 ELSE 0),
     prevPush |-> IF log.kind = "push" THEN <<log.addr>> ELSE <<>>]

GateGuard == ~crashed /\ steps < MaxGateOps

GateFrame == steps' = steps + 1 /\ UNCHANGED <<hasKeyboard, hasDisplay, asm>>

GateRead ==
    \E a \in GateAddrs \cup {DEV_DSR} :
        /\ GateGuard
        /\ \E r \in {read(Machine, a)} :
               Install(r) /\ log' = GateLog("read", a, r.ret)
        /\ GateFrame

GateWrite ==
    \E a \in GateAddrs, v \in GateValues :
        /\ GateGuard
        /\ Install(write(Machine, a, v))
        /\ log' = GateLog("write", a, v)
        /\ GateFrame

GatePush ==
    \E v \in GateValues :
        /\ GateGuard
        /\ \E r \in {push(Machine, v)} :
               Install(r) /\ log' = GateLog("push", r.Registers[6], v)
        /\ GateFrame

GatePop ==
    /\ GateGuard
    /\ \E r \in {pop(Machine)} :
           Install(r) /\ log' = GateLog("pop", Registers[6], r.ret)
    /\ GateFrame

NextGates == GateRead \/ GateWrite \/ GatePush \/ GatePop

SpecGates == InitGates /\ [][NextGates]_vars

-----
(* Properties of Machine.Step, checked under Spec.                         *)

Privileged(procstat) == procstat >= PrivBit

PriorityOf(procstat) == (procstat \div 256) % 8

FlagsOf(procstat) == procstat % 8

FlagOps == {OP_ADD, OP_AND, OP_NOT, OP_LD, OP_LDI, OP_LDR, OP_LEA}

IsStep == log.kind = "step"

\* the step ran to its end (it did not panic on the way)
Completed == IsStep /\ ~crashed

\* C1: in every reachable state R6 holds the supervisor stack pointer (and
\* Stack the user stack pointer) exactly when the privilege bit of Procstat
\* is set: every change of the bit comes with exactly one swap.
C1_StackPointerFollowsPrivilege == r6IsSSP = Privileged(Procstat)

\* C2: after a step whose opcode is ADD, AND, NOT, LD, LDI, LDR or LEA
\* exactly one of N, Z, P is set: N if bit 15 of the value written to DR is
\* set, Z if the value is zero, P otherwise.
C2_FlagsFollowDR ==
    (IsStep /\ log.opcode \in FlagOps) =>
        /\ Len(log.dr) = 1
        /\ FlagsOf(Procstat) =
              (IF log.dr[1] >= PrivBit THEN FLAG_NEG
               ELSE IF log.dr[1] = 0 THEN FLAG_ZERO ELSE FLAG_POS)
        /\ (log.raised = <<>> =>
               Registers[Field9(log.instr)] = log.dr[1])

\* an LDR of KBSR with a byte pending turns Z into N
C2_Witness ==
    /\ IsStep
    /\ log.opcode = OP_LDR
    /\ log.dr = <<PrivBit>>
    /\ FlagsOf(log.pre.Procstat) = FLAG_ZERO
    /\ FlagsOf(Procstat) = FLAG_NEG

\* C3 as stated: a step whose opcode is none of ADD, AND, NOT, LD, LDI, LDR,
\* LEA leaves the N, Z, P bits as they were before the step.
C3_OtherOpcodesKeepFlags ==
    (IsStep /\ log.opcode \notin FlagOps) =>
        FlagsOf(Procstat) = FlagsOf(log.pre.Procstat)

\* C3 amended: such a step leaves N, Z, P as they were, except RTI executed
\* in supervisor mode, after which they are the low three bits of the word
\* popped into Procstat.
C3_FlagsKeptExceptRTI ==
    (IsStep /\ log.opcode \notin FlagOps) =>
        IF log.opcode = OP_RTI /\ Privileged(log.pre.Procstat)
        THEN /\ Len(log.pops) = 2
             /\ FlagsOf(Procstat) = FlagsOf(log.pops[2].value)
        ELSE FlagsOf(Procstat) = FlagsOf(log.pre.Procstat)

\* an exception entry with a condition bit set, which the entry keeps
C3_Witness ==
    /\ IsStep
    /\ log.opcode = OP_RES
    /\ Len(log.raised) = 1
    /\ FlagsOf(log.pre.Procstat) = FLAG_ZERO
    /\ FlagsOf(Procstat) = FLAG_ZERO

\* the case of C5: RTI or the reserved opcode executed in user mode with no
\* keyboard input pending, the step run to its end
C5_Case ==
    /\ Completed
    /\ log.opcode \in {OP_RTI, OP_RES}
    /\ ~Privileged(log.pre.Procstat)
    /\ Len(log.pre.Keyboard) = 0

C5_Vector == MEMSPACE_INT_TABLE + (IF log.opcode = OP_RTI THEN 0 ELSE 1)

\* what C5 says of the registers and of Procstat
C5_Registers ==
    /\ Privileged(Procstat)
    /\ PriorityOf(Procstat) = PriorityOf(log.pre.Procstat)
    /\ Program = MemAt(Memory, C5_Vector)
    /\ Registers[6] = log.pre.Stack
    /\ Stack = Sub16(log.pre.Registers[6], 4)

\* C5 as stated: after the step the privilege bit is set, the priority is
\* unchanged, Program = mem[0x0100 | vector], R6 = S, Stack = U - 4,
\* mem[U - 2] = p and mem[U - 4] = a + 1.
C5_ExceptionEntry ==
    C5_Case =>
        /\ C5_Registers
        /\ MemAt(Memory, Sub16(log.pre.Registers[6], 2)) = log.pre.Procstat
        /\ MemAt(Memory, Sub16(log.pre.Registers[6], 4)) = Add16(log.at, 1)

\* C5 amended: as stated, except that a pushed word whose address is KBDR
\* is not stored: mem[KBDR] keeps its value.
C5_ExceptionEntryExceptKBDR ==
    C5_Case =>
        /\ C5_Registers
        /\ \/ Sub16(log.pre.Registers[6], 2) = DEV_KBDR
           \/ MemAt(Memory, Sub16(log.pre.Registers[6], 2))
                 = log.pre.Procstat
        /\ \/ Sub16(log.pre.Registers[6], 4) = DEV_KBDR
           \/ MemAt(Memory, Sub16(log.pre.Registers[6], 4))
                 = Add16(log.at, 1)
        /\ MemAt(Memory, DEV_KBDR) = MemAt(log.pre.Memory, DEV_KBDR)

\* the literal scenario: U = 0xFE00, S = 0x2FFD, a = 0x3000, p = 0x0400
C5_Witness ==
    /\ C5_Case
    /\ log.opcode = OP_RTI
    /\ log.at = \h3000
    /\ log.pre.Registers[6] = \hFE00
    /\ log.pre.Stack = \h2FFD
    /\ log.pre.Procstat = \h0400
    /\ Privileged(Procstat)
    /\ Program = \h6000
    /\ Registers[6] = \h2FFD
    /\ Stack = \hFDFC
    /\ MemAt(Memory, \hFDFE) = \h0400
    /\ MemAt(Memory, \hFDFC) = \h3001

IsDevice(addr) == addr \in {DEV_KBSR, DEV_KBDR, DEV_DSR, DEV_DDR}

\* the words RTI pops, where it pops them, and the swap it makes first
C6_Pops ==
    /\ Len(log.pops) = 2
    /\ log.pops[1].addr = log.pre.Stack
    /\ log.pops[2].addr = Add16(log.pre.Stack, 2)
    /\ \A i \in 1..2 :
          ~IsDevice(log.pops[i].addr) =>
              log.pops[i].value = MemAt(log.pre.Memory, log.pops[i].addr)

\* RTI in user mode: Privilege Violation, nothing popped
C6_UserMode ==
    (Completed /\ log.opcode = OP_RTI /\ ~Privileged(log.pre.Procstat)) =>
        /\ log.pops = <<>>
        /\ Len(log.raised) >= 1
        /\ log.raised[1].vector = 0
        /\ log.raised[1].procstat = log.pre.Procstat

\* C6 as stated: RTI in supervisor mode clears privilege with a swap of R6
\* and Stack, pops Program and then Procstat, so that after the step Procstat
\* (and Program) are the popped words; RTI in user mode raises Privilege
\* Violation and pops nothing.
C6_ReturnFromInterrupt ==
    /\ C6_UserMode
    /\ (Completed /\ log.opcode = OP_RTI /\ Privileged(log.pre.Procstat)) =>
          /\ C6_Pops
          /\ Program = log.pops[1].value
          /\ Procstat = log.pops[2].value
          /\ Registers[6] = Add16(log.pre.Stack, 4)
          /\ Stack = log.pre.Registers[6]

\* C6 amended: as stated, unless the keyboard interrupt is raised at the end
\* of the same step; then the popped words are the Program and Procstat that
\* the interrupt entry saves.
C6_ReturnUnlessInterrupted ==
    /\ C6_UserMode
    /\ (Completed /\ log.opcode = OP_RTI /\ Privileged(log.pre.Procstat)) =>
          /\ C6_Pops
          /\ IF log.raised = <<>>
             THEN /\ Program = log.pops[1].value
                  /\ Procstat = log.pops[2].value
                  /\ Registers[6] = Add16(log.pre.Stack, 4)
                  /\ Stack = log.pre.Registers[6]
             ELSE /\ Len(log.raised) = 1
                  /\ log.raised[1].vector = 128
                  /\ log.raised[1].program = log.pops[1].value
                  /\ log.raised[1].procstat = log.pops[2].value

\* RTI in supervisor mode popping a user-mode Procstat from ordinary memory
C6_Witness ==
    /\ Completed
    /\ log.opcode = OP_RTI
    /\ Privileged(log.pre.Procstat)
    /\ log.raised = <<>>
    /\ log.pops = <<[addr |-> \hFE08, value |-> \h3001],
                    [addr |-> \hFE0A, value |-> \h0102]>>
    /\ Procstat = \h0102
    /\ Program = \h3001

KeyboardRaised == \E i \in 1..Len(log.raised) : log.raised[i].vector = 128

\* C7: at the end of every step the keyboard interrupt raise(0x80, 4) is
\* performed exactly when a keyboard is attached, a byte is pending and the
\* priority is below 4; the step then ends with priority 4, privilege set
\* and Program = mem[0x0180]; a step that starts at priority 4 or above and
\* is not RTI raises none, whatever is pending.
C7_KeyboardInterrupt ==
    Completed =>
        /\ KeyboardRaised =>
              /\ hasKeyboard
              /\ Len(Keyboard) > 0
              /\ log.raised[Len(log.raised)].vector = 128
              /\ log.raised[Len(log.raised)].priority = 4
              /\ PriorityOf(log.raised[Len(log.raised)].procstat) < 4
              /\ PriorityOf(Procstat) = 4
              /\ Privileged(Procstat)
              /\ Program = MemAt(Memory, MEMSPACE_INT_TABLE + 128)
              /\ Cardinality({i \in 1..Len(log.raised) :
                                 log.raised[i].vector = 128}) = 1
        /\ ~KeyboardRaised =>
              ~(hasKeyboard /\ Len(Keyboard) > 0 /\ PriorityOf(Procstat) < 4)
        /\ (PriorityOf(log.pre.Procstat) >= 4 /\ log.opcode # OP_RTI) =>
              ~KeyboardRaised

\* an interrupt taken from priority 1 with two bytes pending
C7_Witness ==
    /\ Completed
    /\ KeyboardRaised
    /\ Len(Keyboard) = 2
    /\ PriorityOf(log.pre.Procstat) = 1
    /\ PriorityOf(Procstat) = 4
    /\ Program = \h6002

RECURSIVE DisplayBytes(_)
\* the low bytes of the values written to DDR, in the order of the writes
DisplayBytes(writes) ==
    IF writes = <<>> THEN <<>>
    ELSE IF Head(writes).addr = DEV_DDR
         THEN <<Head(writes).value % 256>> \o DisplayBytes(Tail(writes))
         ELSE DisplayBytes(Tail(writes))

\* C10: every write of v to DDR sends the one byte v & 0xFF to the display,
\* so that the display receives, in order, the low bytes of all values
\* written to DDR; reads of DDR return 0.
C10_DisplayReceivesLowBytes ==
    IsStep =>
        /\ Display = log.pre.Display \o DisplayBytes(log.writes)
        /\ \A i \in 1..Len(log.reads) :
              log.reads[i].addr = DEV_DDR => log.reads[i].value = 0
        /\ \A i \in 1..Len(log.writes) :
              log.writes[i].addr = DEV_DDR => hasDisplay

\* two pushes of an exception entry, the first of them to DDR, after an
\* earlier store to DDR; DDR holds the stored word and reads as 0
C10_Witness ==
    /\ IsStep
    /\ hasDisplay
    /\ Len(log.pre.Display) = 1
    /\ Len(Display) = 2
    /\ \E i \in 1..Len(log.writes) :
          /\ log.writes[i].addr = DEV_DDR
          /\ log.writes[i].value >= 256
          /\ Display[2] = log.writes[i].value % 256

----------------------------------------------------------------------------
(* Properties of the gates and of push and pop, checked under SpecGates.   *)

\* the gate application returned (it did not panic)
Returned == ~crashed

\* what a read through the gate at addr returns, given the memory it leaves
GateReadValue(addr) == IF addr = DEV_DDR THEN 0 ELSE MemAt(Memory, addr)

\* n pushes and n pops leave R6 where it started
C4_Balanced == (log.npush = log.npop) => Registers[6] = log.base

\* C4 as stated: a push decrements R6 by exactly 1 and then stores the value
\* at mem[R6]; a pop reads mem[R6] and then increments R6 by exactly 1; n
\* pushes followed by n pops return R6 to its starting value and consecutive
\* pushes occupy adjacent words.
C4_StackMovesByOne ==
    /\ log.kind = "push" =>
          /\ Registers[6] = Sub16(log.pre.Registers[6], 1)
          /\ log.addr = Registers[6]
          /\ log.prevPush # <<>> => log.addr = Sub16(log.prevPush[1], 1)
    /\ log.kind = "pop" =>
          /\ Registers[6] = Add16(log.pre.Registers[6], 1)
          /\ log.addr = log.pre.Registers[6]
          /\ log.value = GateReadValue(log.addr)
    /\ log.kind \in {"push", "pop"} => C4_Balanced

\* C4 amended: a push decrements R6 by exactly 2 (mod 2^16) and then writes
\* the value through the write gate at R6; a pop reads through the read gate
\* at R6 and then increments R6 by exactly 2; n pushes and n pops return R6
\* to its starting value and consecutive pushes lie two words apart.
C4_StackMovesByTwo ==
    /\ log.kind = "push" =>
          /\ Registers[6] = Sub16(log.pre.Registers[6], 2)
          /\ log.addr = Registers[6]
          /\ (Returned /\ log.addr # DEV_KBDR) =>
                MemAt(Memory, log.addr) = log.value
          /\ log.prevPush # <<>> => log.addr = Sub16(log.prevPush[1], 2)
    /\ log.kind = "pop" =>
          /\ Registers[6] = Add16(log.pre.Registers[6], 2)
          /\ log.addr = log.pre.Registers[6]
          /\ log.value = GateReadValue(log.addr)
    /\ log.kind \in {"push", "pop"} => C4_Balanced

\* two pushes from R6 = 2 (the second wraps to 0xFFFE), then a pop
C4_Witness ==
    /\ log.kind = "pop"
    /\ log.base = 2
    /\ log.npush = 2
    /\ log.npop = 1
    /\ log.addr = \hFFFE
    /\ log.value = \h0161
    /\ Registers[6] = 0

\* C8: a read of KBSR through the read gate consumes at most one keyboard
\* byte: with a byte b pending, mem[KBSR] = 0x8000 and mem[KBDR] = b
\* afterwards and the read returns 0x8000; with none pending or no keyboard,
\* mem[KBSR] = 0, mem[KBDR] is unchanged and the read returns 0.  A read of
\* any other address consumes no byte.
C8_KeyboardStatusRead ==
    (log.kind \in {"read", "pop"}) =>
        IF log.addr = DEV_KBSR
        THEN IF hasKeyboard /\ Len(log.pre.Keyboard) > 0
             THEN /\ Keyboard = Tail(log.pre.Keyboard)
                  /\ MemAt(Memory, DEV_KBSR) = PrivBit
                  /\ MemAt(Memory, DEV_KBDR) = Head(log.pre.Keyboard)
                  /\ log.value = PrivBit
             ELSE /\ Keyboard = log.pre.Keyboard
                  /\ MemAt(Memory, DEV_KBSR) = 0
                  /\ MemAt(Memory, DEV_KBDR) = MemAt(log.pre.Memory, DEV_KBDR)
                  /\ log.value = 0
        ELSE Keyboard = log.pre.Keyboard

\* a read of KBSR with two bytes pending takes the first and leaves one
C8_Witness ==
    /\ log.kind = "read"
    /\ log.addr = DEV_KBSR
    /\ log.pre.Keyboard = <<102, 111>>
    /\ Keyboard = <<111>>
    /\ MemAt(Memory, DEV_KBDR) = 102
    /\ MemAt(log.pre.Memory, DEV_KBSR) = \h0161

\* C9: no write through the write gate changes mem[KBDR]; a write to any
\* other address stores the value at that address and changes no other word.
C9_WriteGate ==
    (log.kind \in {"write", "push"} /\ Returned) =>
        /\ MemAt(Memory, DEV_KBDR) = MemAt(log.pre.Memory, DEV_KBDR)
        /\ log.addr # DEV_KBDR => MemAt(Memory, log.addr) = log.value
        /\ \A x \in ((DOMAIN Memory) \cup (DOMAIN log.pre.Memory))
                        \ {log.addr} :
              MemAt(Memory, x) = MemAt(log.pre.Memory, x)

\* a push that lands on KBDR, which a read of KBSR had set to a key
C9_Witness ==
    /\ log.kind = "push"
    /\ Returned
    /\ log.addr = DEV_KBDR
    /\ log.value = \h0161
    /\ MemAt(Memory, DEV_KBDR) = 102

----------------------------------------------------------------------------
(* Machine.LoadBin on its own: SpecLoad loads binary images into a machine *)
(* in some prior state.  An image is a byte stream of two-byte words; it   *)
(* is given by its length in words and the byte pairs of its non-zero      *)
(* words.                                                                  *)

MaxLoads == 2

\* the word indices at which the images differ
ImageIndices == {0, MEMSPACE_SUPERVISOR, Word - 2, Word - 1}

ImagePairs == {<<0, 0>>, <<\h12, \h34>>, <<\hF0, \h25>>}

\* a full image and one that ends (io.EOF) after word 0x0200
ImageLengths == {Word, MEMSPACE_SUPERVISOR + 1}

Images ==
    {[len |-> n, bytes |-> b] :
        n \in ImageLengths, b \in [ImageIndices -> ImagePairs]}

\* word i of the image, as the file format defines it
ImageWord(image, i) ==
    IF i \in DOMAIN image.bytes /\ i < image.len
    THEN BigEndianUint16(image.bytes[i])
    ELSE 0

\* the loop of LoadBin running while index < limit
LoadLoop(image, limit) ==
    MemOf({<<i, BigEndianUint16(image.bytes[i])>> :
              i \in {j \in DOMAIN image.bytes : j < limit /\ j < image.len}})

\* Machine.LoadBin: Reset, then the loop `for index < (1<<16)-1`
LoadBin(m, image) ==
    [m EXCEPT !.Registers = ResetRegisters,
              !.Program = MEMSPACE_SUPERVISOR,
              !.Procstat = PrivBit,
              !.Stack = MEMSPACE_DEVICES,
              !.r6IsSSP = TRUE,
              !.Memory = LoadLoop(image, Word - 1)]

\* the prior states: a zero-valued machine and one that has run
InitLoad ==
    \E dirty \in BOOLEAN :
        /\ Registers = (IF dirty THEN HarnessRegisters(\hFE08)
                        ELSE [i \in 0..7 |-> 0])
        /\ Program = (IF dirty THEN MEMSPACE_USER ELSE 0)
        /\ Procstat = (IF dirty THEN \h0102 ELSE 0)
        /\ Stack = (IF dirty THEN SupervisorStack ELSE 0)
        /\ Memory = (IF dirty
                     THEN MemOf({<<1, \h1111>>, <<Word - 1, \h2222>>})
                     ELSE MemOf({}))
        /\ InitDevices([attached |-> FALSE, pending |-> <<>>], FALSE)
        /\ crashed = FALSE
        /\ r6IsSSP = FALSE
        /\ log = [kind |-> "init"]
        /\ steps = 0

\* mc.LoadBin(file) of main
Load ==
    \E image \in Images :
        /\ steps < MaxLoads
        /\ Install(LoadBin(Machine, image))
        /\ log' = [kind |-> "load", image |-> image, pre |-> Snapshot(Machine)]
        /\ steps' = steps + 1
        /\ UNCHANGED <<hasKeyboard, hasDisplay, asm>>

NextLoad == Load

SpecLoad == InitLoad /\ [][NextLoad]_vars

\* C11: after loading a full image (65 536 words) into a machine in any
\* prior state, all registers are 0 except R6 = 0x3000, Program = 0x0200,
\* Procstat = 0x8000, Stack = 0xFE00 and mem[i] is word i of the image for
\* every i in 0..65535, the last word included.
C11_LoadBinFullImage ==
    (log.kind = "load" /\ log.image.len = Word) =>
        /\ Registers = [i \in 0..7 |-> IF i = 6 THEN \h3000 ELSE 0]
        /\ Program = \h0200
        /\ Procstat = \h8000
        /\ Stack = \hFE00
        /\ \A i \in ImageIndices \cup DOMAIN Memory
                    \cup DOMAIN log.pre.Memory :
              MemAt(Memory, i) = ImageWord(log.image, i)

----------------------------------------------------------------------------
(* The command with -debug: SpecDebug runs the machine with a debugger     *)
(* attached.  The REPL is entered once before the first step and then from *)
(* the handlers; what the user types there is a session, a sequence of     *)
(* command lines, and a script is the sequence of sessions typed during    *)
(* one step.                                                               *)

DebugInstr ==
    { \h1021,   \* ADD  R0, R0, #1
      \h2001,   \* LD   R0, +1
      \h3401,   \* ST   R2, +1
      \hA001,   \* LDI  R0, +1
      \hB401,   \* STI  R2, +1
      \hD000 }  \* reserved opcode

\* what the user types in the REPL entered before the first step
StartSessions ==
    { << <<W("c")>> >>,
      << <<W("n")>> >>,
      << <<W("q")>> >>,
      << <<W("b"), W("add"), Hex(\h0201)>>, <<W("c")>> >>,
      << <<W("b"), W("add"), Hex(\h6002)>>,
         <<W("b"), W("add"), Hex(\h0201)>>, <<W("c")>> >>,
      << <<W("w"), W("add"), Hex(\h0202), W("read")>>, <<W("c")>> >>,
      << <<W("w"), W("add"), Hex(\h0202), W("write")>>, <<W("c")>> >>,
      << <<W("w"), W("add"), Hex(\h0202), W("w")>>,
         <<W("w"), W("add"), Hex(\h0202), W("rw")>>,
         <<W("w"), W("add"), Hex(\h0202), W("r")>>, <<W("c")>> >>,
      << <<W("w"), W("add"), Hex(\h0200), W("r")>>,
         <<W("w"), W("add"), Hex(\h2FFE), W("rw")>>, <<W("c")>> >>,
      << Interrupt, <<W("c")>> >> }

\* what the user types in the REPLs entered during one step
Scripts ==
    { << >>,
      << << <<W("n")>> >> >>,
      << << <<W("q")>> >> >>,
      << << Interrupt, <<W("c")>> >> >>,
      << << <<W("w"), W("clear")>>, <<W("c")>> >> >>,
      << << <<W("set"), Hex(\h0202), Hex(\h0201)>>, <<W("c")>> >>,
         << <<W("b"), W("add"), Hex(\h0201)>>, <<W("c")>> >> >> }

\* golc3 with -debug up to the first debugREPL: devices and debugger
\* attached, the image loaded
InitDebug ==
    \E i0 \in DebugInstr, i1 \in DebugInstr, keys \in {<<>>, <<102>>} :
        /\ Registers = ResetRegisters
        /\ Program = MEMSPACE_SUPERVISOR
        /\ Procstat = PrivBit
        /\ Stack = MEMSPACE_DEVICES
        /\ Memory = MemOf(Handlers \cup Code(MEMSPACE_SUPERVISOR, i0, i1))
        /\ hasKeyboard = TRUE
        /\ Keyboard = keys
        /\ hasDisplay = TRUE
        /\ Display = <<>>
        /\ Debugger = [attached |-> TRUE, Break |-> FALSE,
                       Breakpoints |-> <<>>, Watchpoints |-> <<>>]
        /\ shouldexit = FALSE
        /\ inREPL = FALSE
        /\ asm = NoAssembly
        /\ requested = FALSE
        /\ crashed = FALSE
        /\ r6IsSSP = TRUE
        /\ log = [kind |-> "init"]
        /\ steps = 0

\* debugREPL(mc.Debugger, &mc) before the step loop
DebugStart ==
    \E session \in StartSessions :
        /\ steps = 0
        /\ ~crashed
        /\ Install(debugREPL([Machine EXCEPT !.script = <<session>>]))
        /\ log' = [kind |-> "repl"]
        /\ steps' = 1
        /\ UNCHANGED <<hasKeyboard, hasDisplay, asm>>

\* one iteration of the loop `for !shouldexit { mc.Step() }`
DebugStep ==
    \E script \in Scripts :
        /\ steps >= 1
        /\ steps <= MaxSteps
        /\ ~crashed
        /\ ~shouldexit
        /\ MachineStep([Machine EXCEPT !.script = script])
        /\ steps' = steps + 1
        /\ UNCHANGED <<hasKeyboard, hasDisplay, asm>>

\* the signal goroutine between two steps: dbg.Break = true
Signal ==
    /\ ~crashed
    /\ ~shouldexit
    /\ Install(signalBreak(Machine))
    /\ log' = [kind |-> "signal"]
    /\ UNCHANGED <<hasKeyboard, hasDisplay, asm, steps>>

NextDebug == DebugStart \/ DebugStep \/ Signal

SpecDebug == InitDebug /\ [][NextDebug]_vars

----------------------------------------------------------------------------
(* The REPL command by command: SpecRepl starts inside the debugREPL that  *)
(* golc3 enters before the first step, and each action is one iteration of *)
(* its loop on a line drawn from CommandLines.                             *)

MaxCommands == 3

\* lines that are in error whatever the breakpoint and watchpoint lists
InvalidLines ==
    { <<W("b"), W("rm"), Dec(5)>>,                \* index out of range
      <<W("b"), W("rm"), Dec(-1)>>,               \* index out of range
      <<W("b"), W("rm"), W("zz")>>,               \* unparseable index
      <<W("b"), W("add"), W("zz")>>,              \* unparseable address
      <<W("b"), W("add"), Dec(5)>>,               \* unparseable address
      <<W("b"), W("add"), Hex(Word)>>,            \* address beyond 16 bits
      <<W("b"), W("add")>>,                       \* wrong number of arguments
      <<W("b"), W("rm")>>,                        \* wrong number of arguments
      <<W("b"), W("list"), W("zz")>>,             \* wrong number of arguments
      <<W("b"), W("foo")>>,                       \* unknown sub-command
      <<W("b"), W("foo"), W("bar")>>,             \* unknown sub-command
      <<W("w")>>,                                 \* wrong number of arguments
      <<W("w"), W("foo")>>,                       \* unknown sub-command
      <<W("w"), W("add"), Hex(\h0202)>>,          \* wrong number of arguments
      <<W("w"), W("add"), W("zz"), W("r")>>,      \* unparseable address
      <<W("w"), W("add"), Hex(\h0202), W("zz")>>, \* unknown watchpoint type
      <<W("w"), W("rm"), Dec(7)>>,                \* index out of range
      <<W("w"), W("rm"), Hex(0)>>,                \* unparseable index
      <<W("r"), W("R0")>>,                        \* wrong number of arguments
      <<W("r"), W("R9"), Hex(1)>>,                \* unknown register
      <<W("r"), W("R0"), W("zz")>>,               \* unparseable value
      <<W("j")>>,                                 \* wrong number of arguments
      <<W("j"), W("zz")>>,                        \* unparseable address
      <<W("set"), Hex(\h0202)>>,                  \* wrong number of arguments
      <<W("set"), W("zz"), Hex(1)>>,              \* unparseable address
      <<W("set"), Hex(\h0202), W("zz")>>,         \* unparseable value
      <<W("foo")>> }                              \* unknown command

ValidLines ==
    { <<W("b"), W("add"), Hex(\h0201)>>,
      <<W("b"), W("a"), Hex(\h6002)>>,
      <<W("b"), W("rm"), Dec(0)>>,
      <<W("b"), W("rm"), Dec(1)>>,
      <<W("b"), W("clear")>>,
      <<W("b")>>,
      <<W("w"), W("add"), Hex(\h0202), W("read")>>,
      <<W("w"), W("add"), Hex(\h0202), W("rw")>>,
      <<W("w"), W("rm"), Dec(0)>>,
      <<W("w"), W("clear")>>,
      <<W("w"), W("list")>>,
      <<W("r")>>,
      <<W("r"), W("r6"), Hex(\hFE00)>>,
      <<W("r"), W("PS"), Hex(\h0102)>>,
      <<W("j"), Hex(\h3000)>>,
      <<W("set"), Hex(\h0202), Hex(\h1234)>>,
      <<W("clear")>>,
      <<W("reset")>>,
      <<W("c")>>,
      <<W("n")>>,
      <<W("q")>> }

CommandLines == InvalidLines \cup ValidLines

\* the memory mc.LoadBin(file) of main left: the binary image of the
\* program under the debugger
ReplImage == MemOf(Handlers \cup Code(MEMSPACE_SUPERVISOR, \h2001, \h3401))

\* the text of the file SymTable.Source names, byte by byte: "HALT" with a
\* newline (an odd number of bytes) and ".END" (an even number)
SourceTexts == { <<72, 65, 76, 84, 10>>, <<46, 69, 78, 68>> }

\* dbg.Source after main: nil when there is no symbol table, no source
\* name in it or no such file, else the source file opened for reading
SourceFiles ==
    {NoFile} \cup {[open |-> TRUE, bytes |-> b, pos |-> 0] : b \in SourceTexts}

\* golc3 with -debug at the prompt of the first debugREPL
InitRepl ==
    /\ Registers = ResetRegisters
    /\ Program = MEMSPACE_SUPERVISOR
    /\ Procstat = PrivBit
    /\ Stack = MEMSPACE_DEVICES
    /\ Memory = ReplImage
    /\ hasKeyboard = TRUE
    /\ Keyboard = <<>>
    /\ hasDisplay = TRUE
    /\ Display = <<>>
    /\ \E source \in SourceFiles :
           Debugger = [attached |-> TRUE, Break |-> FALSE,
                       Breakpoints |-> <<>>, Watchpoints |-> <<>>,
                       Source |-> source]
    /\ shouldexit = FALSE
    /\ inREPL = TRUE
    /\ asm = NoAssembly
    /\ requested = FALSE
    /\ crashed = FALSE
    /\ r6IsSSP = TRUE
    /\ log = [kind |-> "init"]
    /\ steps = 0

\* one iteration of the loop of debugREPL
ReplCommand ==
    \E line \in CommandLines :
        /\ inREPL
        /\ ~crashed
        /\ steps < MaxCommands
        /\ \E r \in {replCommand(Machine, line)} :
               /\ Install(r)
               /\ log' = [kind |-> "command", line |-> line,
                          pre |-> Snapshot(Machine), dbg |-> Debugger,
                          reported |-> r.reported]
        /\ steps' = steps + 1
        /\ UNCHANGED <<hasKeyboard, hasDisplay, asm>>

NextRepl == ReplCommand

SpecRepl == InitRepl /\ [][NextRepl]_vars

----------------------------------------------------------------------------
(* Properties of the single instructions, checked under Spec.              *)

\* the two's-complement value of the low `bits` bits of x, as a 16-bit word
SextWord(x, bits) ==
    IF x % (2 ^ bits) >= 2 ^ (bits - 1)
    THEN Word - (2 ^ bits) + (x % (2 ^ bits))
    ELSE x % (2 ^ bits)

\* bits hi..lo of a word
Bits(x, hi, lo) == (x \div (2 ^ lo)) % (2 ^ (hi - lo + 1))

\* the step reached its end and entered no exception or interrupt
Plain == Completed /\ log.raised = <<>>

\* the second operand of ADD and AND as the instruction set defines it
C12_Operand2 ==
    IF Bits(log.instr, 5, 5) = 1
    THEN SextWord(log.instr, 5)
    ELSE log.pre.Registers[Bits(log.instr, 2, 0)]

C12_Result ==
    LET sr1 == log.pre.Registers[Bits(log.instr, 8, 6)]
    IN  CASE log.opcode = OP_ADD -> (sr1 + C12_Operand2) % Word
          [] log.opcode = OP_AND -> BitAnd(sr1, C12_Operand2)
          [] OTHER               -> (Word - 1) - sr1

\* C12: ADD sets DR = (SR1 + operand) mod 2^16, AND sets DR = SR1 & operand,
\* where the operand is SR2 (bits 2..0, any of R0..R7) in register mode and
\* sign_extend(imm5, 5) in immediate mode; NOT sets DR to the complement of
\* SR; Program advances by exactly 1 and no other register or memory word
\* changes.  Stated for the steps in which no keyboard interrupt is entered.
C12_AluResults ==
    (Plain /\ log.opcode \in {OP_ADD, OP_AND, OP_NOT}) =>
        /\ Registers =
              [log.pre.Registers EXCEPT ![Bits(log.instr, 11, 9)] = C12_Result]
        /\ Program = (log.at + 1) % Word
        /\ Memory = log.pre.Memory

\* the opcode switch of the step ended without a panic
Executed == IsStep /\ ~log.exec.crashed

\* the step entered no interrupt, so it ended as the opcode switch left it
C13_EndsAsExecuted ==
    (Executed /\ log.raised = log.exec.raised) =>
        /\ Registers = log.exec.Registers
        /\ Program = log.exec.Program
        /\ Procstat = log.exec.Procstat
        /\ Stack = log.exec.Stack
        /\ Memory = log.exec.Memory

\* C13: TRAP with vector v at address a enables privilege, swapping R6 and
\* Stack if and only if the machine was in user mode, sets R7 = a + 1 and
\* Program = mem[v] with v in 0..0xFF, pushes nothing and leaves the
\* priority and the condition bits unchanged.
C13_Trap ==
    (Executed /\ log.opcode = OP_TRAP) =>
        /\ Privileged(log.exec.Procstat)
        /\ log.exec.Procstat % PrivBit = log.pre.Procstat % PrivBit
        /\ log.exec.Registers =
              [log.pre.Registers EXCEPT
                  ![6] = IF Privileged(log.pre.Procstat)
                         THEN log.pre.Registers[6] ELSE log.pre.Stack,
                  ![7] = (log.at + 1) % Word]
        /\ log.exec.Stack = (IF Privileged(log.pre.Procstat)
                             THEN log.pre.Stack ELSE log.pre.Registers[6])
        /\ log.exec.reads[Len(log.exec.reads)].addr = log.instr % 256
        /\ log.exec.Program = MemAt(log.pre.Memory, log.instr % 256)
        /\ log.exec.writes = <<>>
        /\ log.exec.raised = <<>>
        /\ log.exec.Memory = log.pre.Memory
        /\ C13_EndsAsExecuted

\* TRAP xFF executed in user mode at 0x3000 with R6 = 0xFE00
C13_Witness ==
    /\ Executed
    /\ log.instr = \hF0FF
    /\ log.at = \h3000
    /\ ~Privileged(log.pre.Procstat)
    /\ log.pre.Registers[6] = \hFE00
    /\ Registers[6] = \h2FFD
    /\ Stack = \hFE00
    /\ Registers[7] = \h3001
    /\ Program = \h6004
    /\ Privileged(Procstat)

\* JMP/RET, and JMPT/RTT in supervisor mode, as the opcode switch leaves
\* the machine
C14_Jumps ==
    (Executed /\ log.opcode = OP_JMP
       /\ (Bits(log.instr, 0, 0) = 0 \/ Privileged(log.pre.Procstat))) =>
        /\ log.exec.Program = log.pre.Registers[Bits(log.instr, 8, 6)]
        /\ log.exec.raised = <<>>
        /\ log.exec.Memory = log.pre.Memory
        /\ IF Bits(log.instr, 0, 0) = 0
           THEN /\ log.exec.Procstat = log.pre.Procstat
                /\ log.exec.Registers = log.pre.Registers
                /\ log.exec.Stack = log.pre.Stack
           ELSE /\ log.exec.Procstat = log.pre.Procstat - PrivBit
                /\ log.exec.Registers =
                      [log.pre.Registers EXCEPT ![6] = log.pre.Stack]
                /\ log.exec.Stack = log.pre.Registers[6]

C14_UserJMPT ==
    /\ Completed
    /\ log.opcode = OP_JMP
    /\ Bits(log.instr, 0, 0) = 1
    /\ ~Privileged(log.pre.Procstat)

C15_Taken ==
    \/ Bits(log.instr, 11, 9) = 0
    \/ Bits(log.instr, 11, 11) = 1 /\ Bits(log.pre.Procstat, 2, 2) = 1
    \/ Bits(log.instr, 10, 10) = 1 /\ Bits(log.pre.Procstat, 1, 1) = 1
    \/ Bits(log.instr, 9, 9) = 1 /\ Bits(log.pre.Procstat, 0, 0) = 1

\* C15: BR at address a with offset o sets Program to
\* a + 1 + sign_extend(o, 9) (mod 2^16) if the branch condition holds and
\* to a + 1 otherwise; registers, Procstat and memory are unchanged.
C15_Branch ==
    (Executed /\ log.opcode = OP_BR) =>
        /\ log.exec.Program =
              (IF C15_Taken
               THEN (log.at + 1 + SextWord(log.instr, 9)) % Word
               ELSE (log.at + 1) % Word)
        /\ log.exec.Registers = log.pre.Registers
        /\ log.exec.Procstat = log.pre.Procstat
        /\ log.exec.Stack = log.pre.Stack
        /\ log.exec.Memory = log.pre.Memory
        /\ log.exec.raised = <<>>
        /\ log.raised = <<>> =>
              /\ Program = log.exec.Program
              /\ Registers = log.pre.Registers
              /\ Procstat = log.pre.Procstat
              /\ Memory = log.pre.Memory

\* BRn +1 at 0x3000 with only Z set: not taken
C15_Witness ==
    /\ Executed
    /\ log.instr = \h0801
    /\ log.at = \h3000
    /\ FlagsOf(log.pre.Procstat) = FLAG_ZERO
    /\ Program = \h3001
    /\ Procstat = log.pre.Procstat

\* a + 1 + sext(PCoffset9) and BaseR + sext(offset6), mod 2^16
C16_PCRelative == (log.at + 1 + SextWord(log.instr, 9)) % Word

C16_BaseRelative ==
    (log.pre.Registers[Bits(log.instr, 8, 6)] + SextWord(log.instr, 6)) % Word

\* the read-gate accesses of the instruction, after the fetch
C16_DataReads == SubSeq(log.exec.reads, 2, Len(log.exec.reads))

\* the addresses the instruction accesses are the effective addresses
C16_Addresses ==
    CASE log.opcode = OP_LD ->
           /\ Len(C16_DataReads) = 1
           /\ C16_DataReads[1].addr = C16_PCRelative
      [] log.opcode = OP_LDI ->
           /\ Len(C16_DataReads) = 2
           /\ C16_DataReads[1].addr = C16_PCRelative
           /\ C16_DataReads[2].addr = C16_DataReads[1].value
           /\ ~IsDevice(C16_PCRelative) =>
                 C16_DataReads[1].value = MemAt(log.pre.Memory, C16_PCRelative)
      [] log.opcode = OP_LDR ->
           /\ Len(C16_DataReads) = 1
           /\ C16_DataReads[1].addr = C16_BaseRelative
      [] log.opcode = OP_LEA ->
           /\ C16_DataReads = <<>>
           /\ log.dr = <<C16_PCRelative>>
      [] log.opcode = OP_ST ->
           /\ C16_DataReads = <<>>
           /\ Len(log.exec.writes) = 1
           /\ log.exec.writes[1].addr = C16_PCRelative
      [] log.opcode = OP_STI ->
           /\ Len(C16_DataReads) = 1
           /\ C16_DataReads[1].addr = C16_PCRelative
           /\ Len(log.exec.writes) = 1
           /\ log.exec.writes[1].addr = C16_DataReads[1].value
           /\ ~IsDevice(C16_PCRelative) =>
                 C16_DataReads[1].value = MemAt(log.pre.Memory, C16_PCRelative)
      [] log.opcode = OP_STR ->
           /\ C16_DataReads = <<>>
           /\ Len(log.exec.writes) = 1
           /\ log.exec.writes[1].addr = C16_BaseRelative
      [] OTHER -> TRUE

\* a store to an ordinary address changes that one memory word, to the
\* value of SR, and no register or flag
C16_Stores ==
    (log.opcode \in {OP_ST, OP_STI, OP_STR}
       /\ ~IsDevice(log.exec.writes[1].addr)
       /\ \A i \in 1..Len(C16_DataReads) : ~IsDevice(C16_DataReads[i].addr)) =>
        /\ log.exec.Memory =
              MemSet(log.pre.Memory, log.exec.writes[1].addr,
                     log.pre.Registers[Bits(log.instr, 11, 9)])
        /\ log.exec.Registers = log.pre.Registers
        /\ log.exec.Procstat = log.pre.Procstat
        /\ log.exec.Stack = log.pre.Stack

\* a load changes DR and the flags, and no other register or bit of Procstat
C16_LoadsRegisters ==
    (log.opcode \in {OP_LD, OP_LDI, OP_LDR, OP_LEA}) =>
        /\ Len(log.dr) = 1
        /\ log.opcode # OP_LEA =>
              log.dr[1] = C16_DataReads[Len(C16_DataReads)].value
        /\ log.exec.Registers =
              [log.pre.Registers EXCEPT ![Bits(log.instr, 11, 9)] = log.dr[1]]
        /\ log.exec.Procstat \div 8 = log.pre.Procstat \div 8
        /\ log.exec.Stack = log.pre.Stack
        /\ log.exec.writes = <<>>

C16_Case ==
    /\ Executed
    /\ log.opcode \in {OP_LD, OP_LDI, OP_LDR, OP_LEA, OP_ST, OP_STI, OP_STR}

\* C16 as stated: effective addresses are relative to the post-increment PC
\* and wrap mod 2^16 (LD/ST a + 1 + sext(PCoffset9), LDI/STI the word at that
\* address, LDR/STR BaseR + sext(offset6), LEA the address itself); a store
\* to an ordinary address changes exactly that memory word and no register
\* or flag; a load changes only DR and the flags.
C16_Addressing ==
    C16_Case =>
        /\ C16_Addresses
        /\ C16_Stores
        /\ C16_LoadsRegisters
        /\ log.opcode \in {OP_LD, OP_LDI, OP_LDR, OP_LEA} =>
              /\ log.exec.Memory = log.pre.Memory
              /\ Keyboard = log.pre.Keyboard

\* C16 amended: as stated, except that a load leaves memory and the keyboard
\* queue unchanged only when none of the addresses it reads is KBSR or DSR;
\* otherwise it changes memory at most at KBSR, KBDR and DSR and takes at
\* most one byte per read of KBSR from the keyboard.
C16_AddressingDeviceLoads ==
    C16_Case =>
        /\ C16_Addresses
        /\ C16_Stores
        /\ C16_LoadsRegisters
        /\ log.opcode \in {OP_LD, OP_LDI, OP_LDR, OP_LEA} =>
              IF \A i \in 1..Len(C16_DataReads) :
                    C16_DataReads[i].addr \notin {DEV_KBSR, DEV_DSR}
              THEN /\ log.exec.Memory = log.pre.Memory
                   /\ Keyboard = log.pre.Keyboard
              ELSE /\ \A x \in ((DOMAIN log.exec.Memory)
                                   \cup (DOMAIN log.pre.Memory))
                                \ {DEV_KBSR, DEV_KBDR, DEV_DSR} :
                         MemAt(log.exec.Memory, x) = MemAt(log.pre.Memory, x)
                   /\ \E n \in 0..Len(C16_DataReads) :
                         /\ n <= Len(log.pre.Keyboard)
                         /\ Keyboard =
                               SubSeq(log.pre.Keyboard, n + 1,
                                      Len(log.pre.Keyboard))

\* LDR R0, R1, #-1 with R1 = 0: the address wraps to 0xFFFF
C16_Witness ==
    /\ C16_Case
    /\ log.instr = \h607F
    /\ log.pre.Registers[1] = 0
    /\ log.exec.reads[2].addr = Word - 1
    /\ Memory = log.pre.Memory

----------------------------------------------------------------------------
(* Properties of the debugger hooks, checked under SpecDebug.              *)

\* the hook calls of the last step that came from Debugger.Step
C17_StepHooks == {i \in 1..Len(log.hooks) : log.hooks[i].hook = "step"}

\* C17: with a debugger attached, at the end of each step, after any
\* keyboard-interrupt entry, the break handler is invoked exactly when the
\* break flag is set or the post-step Program is the address of some
\* breakpoint, and at most once per step.
C17_BreakHook ==
    Completed =>
        /\ C17_StepHooks = {Len(log.hooks)}
        /\ LET h == log.hooks[Len(log.hooks)]
           IN  /\ h.addr = log.end
               /\ h.fired \in {0, 1}
               /\ h.fired = 1 <=>
                     \/ h.Break
                     \/ \E j \in 1..Len(h.bps) : h.bps[j] = h.addr

\* a breakpoint at the keyboard interrupt handler fires in the step that
\* enters the interrupt, with the break flag clear
C17_Witness ==
    /\ Completed
    /\ KeyboardRaised
    /\ log.hooks[Len(log.hooks)].hook = "step"
    /\ log.hooks[Len(log.hooks)].fired = 1
    /\ ~log.hooks[Len(log.hooks)].Break
    /\ log.hooks[Len(log.hooks)].addr = \h6002
    /\ log.exec.Program # \h6002

\* the watchpoint types that match an access of the hook
C18_Matching(hook) ==
    IF hook = "read" THEN {ReadWatch, ReadWriteWatch}
    ELSE {WriteWatch, ReadWriteWatch}

\* the addresses of the hook calls of one kind, in order
C18_HookAddrs(hook) ==
    LET idx == {i \in 1..Len(log.hooks) : log.hooks[i].hook = hook}
        Nth(n) == CHOOSE i \in idx : Cardinality({j \in idx : j <= i}) = n
    IN  [n \in 1..Cardinality(idx) |-> log.hooks[Nth(n)].addr]

\* C18: for every access through the read or the write gate the watchpoint
\* handler is invoked exactly when some watchpoint has the accessed address
\* and a matching type (Read or ReadWrite for a read, Write or ReadWrite for
\* a write), and at most once per access.
C18_WatchHooks ==
    IsStep =>
        /\ \A i \in 1..Len(log.hooks) :
              log.hooks[i].hook \in {"read", "write"} =>
                  /\ log.hooks[i].fired \in {0, 1}
                  /\ log.hooks[i].fired = 1 <=>
                        \E j \in 1..Len(log.hooks[i].wps) :
                            /\ log.hooks[i].wps[j].Addr = log.hooks[i].addr
                            /\ log.hooks[i].wps[j].Type
                                  \in C18_Matching(log.hooks[i].hook)
        /\ ~crashed =>
              /\ C18_HookAddrs("read") =
                    [n \in 1..Len(log.reads) |-> log.reads[n].addr]
              /\ C18_HookAddrs("write") =
                    [n \in 1..Len(log.writes) |-> log.writes[n].addr]

\* a read of 0x0202 with a Write, a ReadWrite and a Read watchpoint on it
C18_Witness ==
    /\ IsStep
    /\ \E i \in 1..Len(log.hooks) :
          /\ log.hooks[i].hook = "read"
          /\ log.hooks[i].addr = \h0202
          /\ Len(log.hooks[i].wps) = 3
          /\ log.hooks[i].wps[1].Type = WriteWatch
          /\ log.hooks[i].fired = 1

\* C19: once the break flag has been set by the signal handler, the REPL is
\* entered at the next call of the step hook, whatever the interleaving of
\* the signal handler with the stepper and the REPL commands: no request is
\* lost.
C19_BreakNeverLost ==
    Completed =>
        (log.hooks[Len(log.hooks)].requested =>
            log.hooks[Len(log.hooks)].fired = 1)

----------------------------------------------------------------------------
(* Properties of the REPL commands, checked under SpecRepl.                *)

\* the line is in error: one of InvalidLines, or a removal whose index is
\* not an index of the list
C20_Invalid ==
    /\ log.kind = "command"
    /\ \/ log.line \in InvalidLines
       \/ /\ Len(log.line) = 3
          /\ log.line[1] = W("b")
          /\ log.line[2] = W("rm")
          /\ log.line[3].kind = "dec"
          /\ log.line[3].value >= Len(log.dbg.Breakpoints)
       \/ /\ Len(log.line) = 3
          /\ log.line[1] = W("w")
          /\ log.line[2] = W("rm")
          /\ log.line[3].kind = "dec"
          /\ log.line[3].value >= Len(log.dbg.Watchpoints)

\* C20: every invalid debugger command is reported to the user, leaves the
\* machine state and the breakpoint and watchpoint lists unchanged and does
\* not abort the program: the REPL goes on to the next command.
C20_InvalidCommands ==
    C20_Invalid =>
        /\ ~crashed
        /\ inREPL
        /\ ~shouldexit
        /\ log.reported >= 1
        /\ Snapshot(Machine) = log.pre
        /\ Debugger = log.dbg

\* the elements of a list
C21_Elems(list) == {list[i] : i \in 1..Len(list)}

C21_NoDuplicates(list) ==
    \A i, j \in 1..Len(list) : list[i] = list[j] => i = j

\* the command just run is `<names> <subs> ...`
C21_Command(names, subs) ==
    /\ log.kind = "command"
    /\ Len(log.line) >= 2
    /\ log.line[1].text \in names
    /\ log.line[2].text \in subs

\* what add, remove and clear did to a list: before and after are the list
\* before and after the command, entry is the entry an add names
C21_Add(before, after, entry) ==
    IF entry \in C21_Elems(before)
    THEN after = before
    ELSE after = Append(before, entry)

C21_Remove(before, after) ==
    (/\ Len(log.line) = 3
     /\ log.line[3].kind = "dec"
     /\ log.line[3].value \in 0..(Len(before) - 1))
    => /\ Len(after) = Len(before) - 1
       /\ C21_Elems(after) =
              C21_Elems(before) \ {before[log.line[3].value + 1]}

C21_BreakNames == {"b", "bp", "break", "breakpoint"}

C21_WatchNames == {"w", "wp", "watch", "watchpoint"}

C21_WatchType(text) ==
    CASE text \in {"r", "read"} -> ReadWatch
      [] text \in {"w", "write"} -> WriteWatch
      [] OTHER -> ReadWriteWatch

\* C21: the breakpoint list never holds an address twice and the watchpoint
\* list never holds an address and type twice; adding a present entry
\* changes nothing, adding a new one appends exactly it, `remove i` with a
\* valid index deletes exactly the element at index i and keeps the others,
\* and `clear` empties the list.
C21_ListsAreSets ==
    /\ C21_NoDuplicates(Debugger.Breakpoints)
    /\ C21_NoDuplicates(Debugger.Watchpoints)
    /\ (C21_Command(C21_BreakNames, {"a", "add"}) /\ log.line \in ValidLines)
       => C21_Add(log.dbg.Breakpoints, Debugger.Breakpoints,
                  log.line[3].value)
    /\ (C21_Command(C21_WatchNames, {"a", "add"}) /\ log.line \in ValidLines)
       => C21_Add(log.dbg.Watchpoints, Debugger.Watchpoints,
                  [Addr |-> log.line[3].value,
                   Type |-> C21_WatchType(log.line[4].text)])
    /\ C21_Command(C21_BreakNames, {"r", "rm", "remove"})
       => C21_Remove(log.dbg.Breakpoints, Debugger.Breakpoints)
    /\ C21_Command(C21_WatchNames, {"r", "rm", "remove"})
       => C21_Remove(log.dbg.Watchpoints, Debugger.Watchpoints)
    /\ C21_Command(C21_BreakNames, {"clear"})
       => Debugger.Breakpoints = <<>>
    /\ C21_Command(C21_WatchNames, {"clear"})
       => Debugger.Watchpoints = <<>>

\* the first of two breakpoints has been removed: the last took its place
C21_Witness ==
    /\ C21_Command(C21_BreakNames, {"rm"})
    /\ Len(log.line) = 3
    /\ log.line[3] = Dec(0)
    /\ Len(log.dbg.Breakpoints) = 2
    /\ Debugger.Breakpoints = <<log.dbg.Breakpoints[2]>>

----------------------------------------------------------------------------
(* Properties of the debugger commands during a step, checked under        *)
(* SpecDebug.                                                              *)

\* C22: once quit is entered in the REPL the machine stops: no register,
\* memory word or device output changes after the command, whether the REPL
\* was entered from the step hook or from a read or write watchpoint.
C22_QuitStopsMachine ==
    (IsStep /\ log.quit # <<>>) =>
        /\ Registers = log.quit[1].Registers
        /\ Program = log.quit[1].Program
        /\ Procstat = log.quit[1].Procstat
        /\ Memory = log.quit[1].Memory
        /\ Display = log.quit[1].Display

----------------------------------------------------------------------------
(* The assembler (package assembler, AssembleLC3Source).  A source line is *)
(* a string, a token value is a string, and the lexer walks the line       *)
(* character by character as the loop `for column, char := range line`     *)
(* does: column counts bytes, so a character outside ASCII is two bytes     *)
(* wide.                                                                   *)

TOKEN_NONE == "NONE"

TOKEN_IDENT == "IDENT"

TOKEN_DIRECTIVE == "DIRECTIVE"

TOKEN_STRING == "STRING"

TOKEN_LITERAL == "LITERAL"

LITERAL_IMM5 == 5

LITERAL_OFFSET6 == 6

LITERAL_TRAPVEC8 == 8

LITERAL_PCOFFSET9 == 9

LITERAL_PCOFFSET11 == 11

LITERAL_WORD == 16

\* unicode.IsSpace on the characters in use
IsSpace(char) == char \in {" ", "\t"}

\* unicode.IsDigit
IsDigit(char) == char \in {"0", "1", "2", "3", "4", "5", "6", "7", "8", "9"}

UpperLetters ==
    {"A", "B", "C", "D", "E", "F", "G", "H", "I", "J", "K", "L", "M",
     "N", "O", "P", "Q", "R", "S", "T", "U", "V", "W", "X", "Y", "Z"}

LowerLetters ==
    {"a", "b", "c", "d", "e", "f", "g", "h", "i", "j", "k", "l", "m",
     "n", "o", "p", "q", "r", "s", "t", "u", "v", "w", "x", "y", "z"}

\* the characters above unicode.MaxASCII in use (a letter)
NonASCII == {"é"}

\* unicode.IsLetter
IsLetter(char) == char \in UpperLetters \cup LowerLetters \cup NonASCII

\* the number of bytes of the character in the line (UTF-8)
ByteWidth(char) == IF char \in NonASCII THEN 2 ELSE 1

RECURSIVE ByteLen(_)
\* len(line): the length of the line in bytes
ByteLen(line) ==
    IF line = "" THEN 0
    ELSE ByteWidth(SubSeq(line, 1, 1)) + ByteLen(SubSeq(line, 2, Len(line)))

\* errs = append(errs, <an error of this kind>); line is cursor.Line
AsmError(kind, line) == [kind |-> kind, line |-> line]

\* the switch on the character.  x is the state of the lexer in the line:
\* tokens, tokenType, tokenStart, builder, errs, column (cursor.Column),
\* and the flags flush, skip and continue of the iteration.
LexSwitch(x, char, line) ==
    LET unexpected ==
            [x EXCEPT !.errs = Append(@, AsmError("UnexpectedCharacter", line))]
        oversized ==
            [x EXCEPT !.errs = Append(@, AsmError("OversizedCharacter", line))]
        unexpectedOversized ==
            [x EXCEPT !.errs = @ \o <<AsmError("OversizedCharacter", line),
                                      AsmError("UnexpectedCharacter", line)>>]
    IN  CASE IsSpace(char) ->
               IF x.tokenType = TOKEN_NONE THEN [x EXCEPT !.continue = TRUE]
               ELSE IF x.tokenType # TOKEN_STRING THEN [x EXCEPT !.flush = TRUE]
               ELSE x
          [] char = ";" ->
               IF x.tokenType = TOKEN_NONE THEN [x EXCEPT !.skip = TRUE]
               ELSE IF x.tokenType # TOKEN_STRING
               THEN [x EXCEPT !.flush = TRUE, !.skip = TRUE]
               ELSE x
          [] char = "." ->
               IF x.tokenType = TOKEN_NONE
               THEN [x EXCEPT !.tokenType = TOKEN_DIRECTIVE]
               ELSE IF x.tokenType # TOKEN_STRING THEN unexpected
               ELSE x
          [] char = "," ->
               IF x.tokenType # TOKEN_STRING THEN [x EXCEPT !.flush = TRUE]
               ELSE x
          [] char \in {"x", "X"} ->
               IF x.tokenType = TOKEN_NONE
               THEN [x EXCEPT !.tokenType = TOKEN_LITERAL]
               ELSE x
          [] char = "#" ->
               IF x.tokenType = TOKEN_NONE
               THEN [x EXCEPT !.tokenType = TOKEN_LITERAL]
               ELSE IF x.tokenType # TOKEN_STRING THEN unexpected
               ELSE x
          [] char = "\"" ->
               IF x.tokenType = TOKEN_NONE
               THEN [x EXCEPT !.tokenType = TOKEN_STRING]
               ELSE IF x.tokenType = TOKEN_STRING THEN [x EXCEPT !.flush = TRUE]
               ELSE unexpected
          [] IsDigit(char) ->
               IF x.tokenType = TOKEN_NONE
               THEN [x EXCEPT !.tokenType = TOKEN_LITERAL]
               ELSE x
          [] char = "-" ->
               IF x.tokenType # TOKEN_LITERAL THEN unexpected ELSE x
          [] char = "_" ->
               IF x.tokenType = TOKEN_NONE
               THEN [x EXCEPT !.tokenType = TOKEN_IDENT]
               ELSE IF x.tokenType \notin {TOKEN_IDENT, TOKEN_STRING}
               THEN unexpected
               ELSE x
          [] IsLetter(char) /\ char \notin {"x", "X"} ->
               IF x.tokenType = TOKEN_NONE
               THEN IF char \in NonASCII
                    THEN [oversized EXCEPT !.tokenType = TOKEN_IDENT]
                    ELSE [x EXCEPT !.tokenType = TOKEN_IDENT]
               ELSE IF char \in NonASCII THEN oversized ELSE x
          [] OTHER ->
               IF x.tokenType # TOKEN_STRING
               THEN IF char \in NonASCII THEN unexpectedOversized
                    ELSE unexpected
               ELSE IF char \in NonASCII THEN oversized ELSE x

\* the end-of-line test `cursor.Column == len(line)` and the closing quote
\* of a string
LexLineEnd(x, char, line, len) ==
    IF x.column = len
    THEN [x EXCEPT
            !.errs =
                IF x.tokenType = TOKEN_STRING
                THEN IF char # "\"" \/ x.tokenStart = x.column
                     THEN Append(@, AsmError("InvalidString", line))
                     ELSE @
                ELSE IF char = ","
                     THEN Append(@, AsmError("UnexpectedCharacter", line))
                     ELSE @,
            !.flush = TRUE,
            !.builder = @ \o char]
    ELSE IF x.flush /\ x.tokenType = TOKEN_STRING /\ char = "\""
    THEN [x EXCEPT !.builder = @ \o char]
    ELSE x

\* `if flush { ... } else if !skip { builder.WriteRune(char) }`
LexFlush(x, char) ==
    IF x.flush
    THEN [x EXCEPT
            !.tokens =
                IF x.builder # ""
                THEN Append(@, [Type |-> x.tokenType, Value |-> x.builder,
                                Column |-> x.tokenStart])
                ELSE @,
            !.builder = "",
            !.flush = FALSE,
            !.tokenType = TOKEN_NONE]
    ELSE IF ~x.skip THEN [x EXCEPT !.builder = @ \o char]
    ELSE x

\* the rest of one iteration after the switch, unless it said `continue`
LexAfterSwitch(x, char, line, len) ==
    IF x.continue THEN [x EXCEPT !.continue = FALSE]
    ELSE LexFlush(LexLineEnd(x, char, line, len), char)

\* one iteration of the loop over the characters: char starts at byte
\* x.column (counted from 0) of the line
LexChar(x, char, line, len) ==
    LexAfterSwitch(
        LexSwitch([x EXCEPT !.column = @ + 1,
                            !.tokenStart = IF x.tokenType = TOKEN_NONE
                                           THEN x.column + 1 ELSE @],
                  char, line),
        char, line, len)

\* cursor.Column is the byte index of the character plus one: the bytes of
\* a wide character after the first are passed over by the range loop
LexAdvance(x, char) == [x EXCEPT !.column = @ + ByteWidth(char) - 1]

RECURSIVE LexLoop(_, _, _, _)
\* the loop over the characters of text, the rest of the line
LexLoop(x, text, line, len) ==
    IF text = "" \/ x.skip THEN x
    ELSE LexLoop(LexAdvance(LexChar(x, SubSeq(text, 1, 1), line, len),
                            SubSeq(text, 1, 1)),
                 SubSeq(text, 2, Len(text)), line, len)

\* the lexing of one line: builder is the strings.Builder shared by all
\* lines, errs the errors so far, line is cursor.Line
Lex(builder, errs, text, line) ==
    LexLoop([tokens |-> <<>>, tokenType |-> TOKEN_NONE, tokenStart |-> 0,
             builder |-> builder, errs |-> errs, column |-> 0,
             flush |-> FALSE, skip |-> FALSE, continue |-> FALSE],
            text, line, ByteLen(text))

\* the position of the character in the string (the character occurs in it)
IndexOf(str, char) ==
    CHOOSE i \in 1..Len(str) : SubSeq(str, i, i) = char

UpperString == "ABCDEFGHIJKLMNOPQRSTUVWXYZ"

LowerString == "abcdefghijklmnopqrstuvwxyz"

\* the ASCII characters from 0x20 (space) to 0x5F (_)
ASCIIString ==
    " !\"#$%&'()*+,-./0123456789:;<=>?@ABCDEFGHIJKLMNOPQRSTUVWXYZ[\\]^_"

\* the ASCII characters from 0x7B to 0x7E
ASCIIBraces == "{|}~"

\* uint16(c) for a character of a string literal
RuneValue(char) ==
    IF char = "\t" THEN 9
    ELSE IF char \in NonASCII THEN 233
    ELSE IF char \in LowerLetters THEN IndexOf(LowerString, char) + 96
    ELSE IF char \in {"{", "|", "}", "~"} THEN IndexOf(ASCIIBraces, char) + 122
    ELSE IndexOf(ASCIIString, char) + 31

\* the simple case folding of one character
FoldChar(char) ==
    IF char \in LowerLetters
    THEN SubSeq(UpperString, IndexOf(LowerString, char),
                IndexOf(LowerString, char))
    ELSE char

RECURSIVE FoldString(_)
FoldString(str) ==
    IF str = "" THEN ""
    ELSE FoldChar(SubSeq(str, 1, 1)) \o FoldString(SubSeq(str, 2, Len(str)))

\* strings.EqualFold
EqualFold(s, t) == FoldString(s) = FoldString(t)

DirectiveNames == {".ORIG", ".FILL", ".BLKW", ".STRINGZ", ".END"}

DIRECTIVE_INVALID == "INVALID"

parseDirective(ident) ==
    IF FoldString(ident) \in DirectiveNames THEN FoldString(ident)
    ELSE DIRECTIVE_INVALID

BranchNames ==
    {"BR", "BRN", "BRZ", "BRP", "BRNZ", "BRZP", "BRNP", "BRNZP"}

TrapAliases == {"GETC", "OUT", "PUTS", "IN", "PUTSP", "HALT"}

InstructionNames ==
    {"ADD", "AND", "JMP", "JMPT", "JSR", "JSRR", "LD", "LDI", "LDR", "LEA",
     "NOT", "RET", "RTI", "RTT", "ST", "STI", "STR", "TRAP"}
    \cup BranchNames \cup TrapAliases

INSTRUCTION_INVALID == "INVALID"

\* the instruction is named by its mnemonic in upper case
parseInstruction(ident) ==
    IF FoldString(ident) \in InstructionNames THEN FoldString(ident)
    ELSE INSTRUCTION_INVALID

RegisterNames == {"R0", "R1", "R2", "R3", "R4", "R5", "R6", "R7"}

\* parseRegister: the register number and ok
parseRegister(token) ==
    IF FoldString(token.Value) \in RegisterNames
    THEN [reg |-> IndexOf("01234567", SubSeq(token.Value, 2, 2)) - 1,
          ok |-> TRUE]
    ELSE [reg |-> 0, ok |-> FALSE]

HexDigits == "0123456789ABCDEF"

IsHexDigit(char) ==
    IsDigit(char) \/ FoldChar(char) \in {"A", "B", "C", "D", "E", "F"}

\* the value of the number or -1 for an error, as strconv reports one
NumberError == -1

RECURSIVE ParseDigits(_, _, _, _)
\* the digits of str in the base, accumulated into n; an error when a
\* character is no digit of the base or the value reaches limit
ParseDigits(str, base, n, limit) ==
    IF n = NumberError \/ str = "" THEN n
    ELSE IF SubSeq(str, 1, 1) = "_" /\ base = 16
    THEN ParseDigits(SubSeq(str, 2, Len(str)), base, n, limit)
    ELSE IF ~(IF base = 16 THEN IsHexDigit(SubSeq(str, 1, 1))
              ELSE IsDigit(SubSeq(str, 1, 1)))
    THEN NumberError
    ELSE ParseDigits(
            SubSeq(str, 2, Len(str)), base,
            IF n * base + IndexOf(HexDigits, FoldChar(SubSeq(str, 1, 1))) - 1
               >= limit
            THEN NumberError
            ELSE n * base + IndexOf(HexDigits, FoldChar(SubSeq(str, 1, 1))) - 1,
            limit)

\* an underscore in the digits after a base prefix separates digits: it is
\* followed by a digit
UnderscoreOK(str) ==
    /\ \E i \in 1..Len(str) : SubSeq(str, i, i) # "_"
    /\ \A i \in 1..Len(str) :
          SubSeq(str, i, i) = "_" =>
              /\ i < Len(str)
              /\ SubSeq(str, i + 1, i + 1) # "_"

\* strconv.ParseUint(s, 0, 16) of a string whose second character is x or X
ParseUintPrefixed(s) ==
    IF SubSeq(s, 1, 1) = "0" /\ Len(s) >= 3 /\ UnderscoreOK(SubSeq(s, 3, Len(s)))
    THEN ParseDigits(SubSeq(s, 3, Len(s)), 16, 0, Word)
    ELSE NumberError

\* strings.IndexAny(s, "xX") counted from 1, or 0 when there is none
IndexAnyX(s) ==
    IF \E i \in 1..Len(s) : SubSeq(s, i, i) \in {"x", "X"}
    THEN CHOOSE i \in 1..Len(s) :
            /\ SubSeq(s, i, i) \in {"x", "X"}
            /\ \A j \in 1..(i - 1) : SubSeq(s, j, j) \notin {"x", "X"}
    ELSE 0

\* encoding.DecodeHex on the characters of the string: the value, or
\* NumberError
DecodeHexString(s) ==
    IF IndexAnyX(s) = 1 THEN ParseUintPrefixed("0" \o s)
    ELSE IF IndexAnyX(s) = 2 THEN ParseUintPrefixed(s)
    ELSE NumberError

\* strconv.ParseInt(s, 10, 16): a pair <<ok, value>>
ParseInt10(s) ==
    IF s = "" THEN <<FALSE, 0>>
    ELSE IF SubSeq(s, 1, 1) = "-"
    THEN IF Len(s) = 1
            \/ ParseDigits(SubSeq(s, 2, Len(s)), 10, 0, 32769) = NumberError
         THEN <<FALSE, 0>>
         ELSE <<TRUE, 0 - ParseDigits(SubSeq(s, 2, Len(s)), 10, 0, 32769)>>
    ELSE IF SubSeq(s, 1, 1) = "+"
    THEN IF Len(s) = 1
            \/ ParseDigits(SubSeq(s, 2, Len(s)), 10, 0, 32768) = NumberError
         THEN <<FALSE, 0>>
         ELSE <<TRUE, ParseDigits(SubSeq(s, 2, Len(s)), 10, 0, 32768)>>
    ELSE IF ParseDigits(s, 10, 0, 32768) = NumberError THEN <<FALSE, 0>>
    ELSE <<TRUE, ParseDigits(s, 10, 0, 32768)>>

\* encoding.DecodeInt: a pair <<ok, value>>
DecodeInt(s) ==
    IF s # "" /\ SubSeq(s, 1, 1) = "#" THEN ParseInt10(SubSeq(s, 2, Len(s)))
    ELSE ParseInt10(s)

\* the decimal branch of parseLiteral on the decoded pair <<ok, value>>:
\* limit is (1 << bits) - 1, and the value in range is cut to its low bits
\* ((result & (1 << bits)) - 1 is never 0 for bits >= 1)
literalOfInt(d, bits) ==
    IF ~d[1] THEN [value |-> 0, err |-> "InvalidLiteral"]
    ELSE IF bits < 16
    THEN IF d[2] < 0 - ((2 ^ bits) - 1) \/ d[2] >= (2 ^ bits) - 1
         THEN [value |-> 0, err |-> "OversizedLiteral"]
         ELSE [value |-> d[2] % (2 ^ bits), err |-> ""]
    ELSE [value |-> d[2] % Word, err |-> ""]

\* the hexadecimal branch of parseLiteral on the decoded value: limit is
\* 1 << bits, and a value below it has the bit of the limit clear
literalOfHex(h, bits) ==
    IF h = NumberError THEN [value |-> 0, err |-> "InvalidLiteral"]
    ELSE IF bits < 16 /\ h >= 2 ^ bits
    THEN [value |-> 0, err |-> "OversizedLiteral"]
    ELSE [value |-> h, err |-> ""]

\* parseLiteral: the value and the kind of the error ("" for none)
parseLiteral(token, bits) ==
    IF IndexAnyX(token.Value) # 0
    THEN literalOfHex(DecodeHexString(token.Value), bits)
    ELSE literalOfInt(DecodeInt(token.Value), bits)

(* The assembly of a statement.  a is the state of AssembleLC3Source: the  *)
(* image result (the words that are not 0), errs, the map labels, the      *)
(* slices labelRefs and fillRefs, program, the builder, the cursor (Line   *)
(* and LineByte), scratch, and the maps Symbols and Labels of the symbol   *)
(* table, which the caller provides.  phase tells where the function is:   *)
(* "lines" in the loop over the lines, "finished" after the return at the  *)
(* end, "aborted" after the return in the loop, "panic" after a run-time   *)
(* panic.  emitted maps each address that holds an instruction word to the *)
(* byte offset of the line that wrote it last, written is the set of the   *)
(* addresses written, overlap tells that an address was written twice,     *)
(* sites lists the operands of `.FILL label`, and source is the sequence   *)
(* of the lines read: these are history, not state of the function.        *)

\* errs = append(errs, <an error of this kind>)
withError(a, kind) == [a EXCEPT !.errs = Append(@, AsmError(kind, a.Line))]

\* the index of the keyword among the tokens of the line: 1, 2 when the
\* first token is a label, 0 when there is none
KeywordAt(tokens) ==
    IF parseInstruction(tokens[1].Value) # INSTRUCTION_INVALID
       \/ parseDirective(tokens[1].Value) # DIRECTIVE_INVALID
    THEN 1
    ELSE IF Len(tokens) > 1
            /\ (parseInstruction(tokens[2].Value) # INSTRUCTION_INVALID
                \/ parseDirective(tokens[2].Value) # DIRECTIVE_INVALID)
    THEN 2
    ELSE 0

\* the variables instruction, directive and operands of the line
instructionOf(tokens) ==
    IF KeywordAt(tokens) = 0 THEN INSTRUCTION_INVALID
    ELSE parseInstruction(tokens[KeywordAt(tokens)].Value)

directiveOf(tokens) ==
    IF KeywordAt(tokens) = 0 \/ instructionOf(tokens) # INSTRUCTION_INVALID
    THEN DIRECTIVE_INVALID
    ELSE parseDirective(tokens[KeywordAt(tokens)].Value)

operandsOf(tokens) ==
    IF KeywordAt(tokens) = 0 THEN <<>>
    ELSE SubSeq(tokens, KeywordAt(tokens) + 1, Len(tokens))

\* `if label != nil { ... }`: the declaration of the label of the line
declareLabel(a, tokens) ==
    IF KeywordAt(tokens) = 1 THEN a
    ELSE IF tokens[1].Value \notin DOMAIN a.labels
    THEN [a EXCEPT !.labels =
            [n \in DOMAIN a.labels \cup {tokens[1].Value} |->
                IF n = tokens[1].Value THEN a.program % Word ELSE a.labels[n]]]
    ELSE withError(a, "RedeclaredLabel")

\* the error of parseLiteral, if any, appended
withLiteralError(a, lit) ==
    IF lit.err # "" THEN withError(a, lit.err) ELSE a

\* result[program] = value: an index outside the slice panics
writeResult(a, value) ==
    IF a.program >= Word THEN [a EXCEPT !.phase = "panic"]
    ELSE [a EXCEPT !.result = MemSet(@, a.program, value),
                   !.written = @ \cup {a.program},
                   !.overlap = @ \/ a.program \in a.written]

fillLiteral(a, lit) ==
    [writeResult(withLiteralError(a, lit), lit.value) EXCEPT !.program = @ + 1]

\* the operand of `.FILL label` at program, for the record
withSite(a, token) ==
    [a EXCEPT !.sites = Append(@, [Label |-> token.Value,
                                   Addr |-> a.program % Word])]

\* case DIRECTIVE_FILL
directiveFill(a, operands) ==
    IF Len(operands) # 1 THEN withError(a, "InvalidNumArguments")
    ELSE IF operands[1].Type = TOKEN_LITERAL
    THEN fillLiteral(a, parseLiteral(operands[1], LITERAL_WORD))
    ELSE IF operands[1].Type = TOKEN_IDENT
    THEN IF operands[1].Value \in DOMAIN a.labels
         THEN [writeResult(withSite(a, operands[1]),
                           a.labels[operands[1].Value])
                 EXCEPT !.program = @ + 1]
         ELSE [withSite(a, operands[1]) EXCEPT
                 !.fillRefs = Append(@, [Label |-> operands[1].Value,
                                         Addr |-> a.program % Word,
                                         Line |-> a.Line]),
                 !.written = @ \cup {a.program},
                 !.overlap = @ \/ a.program \in a.written,
                 !.program = @ + 1]
    ELSE [withError(a, "InvalidOperand") EXCEPT !.program = @ + 1]

blockOf(a, lit) ==
    [withLiteralError(a, lit) EXCEPT !.program = @ + lit.value]

\* case DIRECTIVE_BLKW
directiveBlkw(a, operands) ==
    IF Len(operands) # 1 THEN withError(a, "InvalidNumArguments")
    ELSE IF operands[1].Type # TOKEN_LITERAL
    THEN withError(a, "InvalidOperand")
    ELSE blockOf(a, parseLiteral(operands[1], LITERAL_WORD))

\* strconv.Unquote of the value of a string token without a backslash: the
\* text between the quotes (the lines in use hold no backslash)
Unquote(value) ==
    IF Len(value) >= 2 /\ SubSeq(value, 1, 1) = "\""
       /\ SubSeq(value, Len(value), Len(value)) = "\""
       /\ \A i \in 2..(Len(value) - 1) :
             SubSeq(value, i, i) \notin {"\"", "\\"}
    THEN [s |-> SubSeq(value, 2, Len(value) - 1), ok |-> TRUE]
    ELSE [s |-> "", ok |-> FALSE]

\* result[program] = value; program++, unless the index panics
writeNext(a, value) ==
    IF a.program >= Word THEN [a EXCEPT !.phase = "panic"]
    ELSE [writeResult(a, value) EXCEPT !.program = @ + 1]

RECURSIVE writeString(_, _)
\* the characters of s and the final 0, each at program, which advances
writeString(a, str) ==
    IF a.phase = "panic" THEN a
    ELSE IF str = "" THEN writeNext(a, 0)
    ELSE writeString(writeNext(a, RuneValue(SubSeq(str, 1, 1))),
                     SubSeq(str, 2, Len(str)))

stringOf(a, unquoted) ==
    writeString(IF unquoted.ok THEN a ELSE withError(a, "InvalidString"),
                unquoted.s)

\* case DIRECTIVE_STRINGZ
directiveStringz(a, operands) ==
    IF Len(operands) # 1 THEN withError(a, "InvalidNumArguments")
    ELSE IF operands[1].Type # TOKEN_STRING
    THEN withError(a, "InvalidOperand")
    ELSE stringOf(a, Unquote(operands[1].Value))

originOf(a, lit) ==
    [withLiteralError(a, lit) EXCEPT !.program = lit.value]

\* case DIRECTIVE_ORIG
directiveOrig(a, operands) ==
    IF Len(operands) # 1 THEN withError(a, "InvalidNumArguments")
    ELSE IF operands[1].Type # TOKEN_LITERAL
    THEN withError(a, "InvalidOperand")
    ELSE originOf(a, parseLiteral(operands[1], LITERAL_WORD))

\* `switch directive`
assembleDirective(a, directive, operands) ==
    CASE directive = ".FILL" -> directiveFill(a, operands)
      [] directive = ".BLKW" -> directiveBlkw(a, operands)
      [] directive = ".STRINGZ" -> directiveStringz(a, operands)
      [] directive = ".ORIG" -> directiveOrig(a, operands)
      [] OTHER -> a

\* scratch <<= n; scratch |= bits
shiftOr(a, n, bits) == [a EXCEPT !.scratch = BitOr(Shl16(@, n), bits)]

registerInto(a, parsed, n) ==
    shiftOr(IF parsed.ok THEN a ELSE withError(a, "InvalidRegister"),
            n, BitAnd(parsed.reg, 7))

\* one round of `for i := 0; i < 2; i++` over the register operands
registerOperand(a, token) ==
    IF token.Type # TOKEN_IDENT THEN withError(a, "InvalidOperand")
    ELSE registerInto(a, parseRegister(token), 3)

immediateInto(a, lit, n, mask) ==
    shiftOr(withLiteralError(a, lit), n, BitAnd(lit.value, mask))

\* the third operand of ADD and AND
registerOrImmediate(a, token) ==
    IF token.Type = TOKEN_IDENT THEN registerInto(a, parseRegister(token), 6)
    ELSE IF token.Type = TOKEN_LITERAL
    THEN immediateInto(shiftOr(a, 1, 1),
                       parseLiteral(token, LITERAL_IMM5), 5, 31)
    ELSE withError(a, "InvalidOperand")

\* case INSTRUCTION_ADD, INSTRUCTION_AND
assembleOperate(a, instruction, operands) ==
    IF Len(operands) # 3 THEN withError(a, "InvalidNumArguments")
    ELSE registerOrImmediate(
            registerOperand(
                registerOperand(
                    shiftOr(a, 0, IF instruction = "ADD" THEN 1 ELSE 5),
                    operands[1]),
                operands[2]),
            operands[3])

\* labelRefs = append(labelRefs, ...); scratch <<= n
labelReference(a, token, size, n) ==
    [a EXCEPT !.labelRefs = Append(@, [Label |-> token.Value,
                                       Addr |-> a.program % Word,
                                       Size |-> size,
                                       Line |-> a.Line]),
              !.scratch = Shl16(@, n)]

\* the condition bits of the branch
BranchFlags(instruction) ==
    (IF instruction \in {"BRN", "BRNZ", "BRNP", "BRNZP"} THEN 4 ELSE 0)
    + (IF instruction \in {"BRZ", "BRNZ", "BRZP", "BRNZP"} THEN 2 ELSE 0)
    + (IF instruction \in {"BRP", "BRZP", "BRNP", "BRNZP"} THEN 1 ELSE 0)

\* case INSTRUCTION_BR ... INSTRUCTION_BRnzp
assembleBranch(a, instruction, operands) ==
    IF Len(operands) # 1 THEN withError(a, "InvalidNumArguments")
    ELSE IF operands[1].Type # TOKEN_IDENT
    THEN withError(shiftOr(a, 0, BranchFlags(instruction)), "InvalidOperand")
    ELSE labelReference(shiftOr(a, 0, BranchFlags(instruction)),
                        operands[1], LITERAL_PCOFFSET9, 9)

\* case INSTRUCTION_JMP, INSTRUCTION_JMPT and case INSTRUCTION_JSRR: the
\* opcode, the base register and the last bit
assembleBase(a, opcode, last, operands) ==
    IF Len(operands) # 1 THEN withError(a, "InvalidNumArguments")
    ELSE IF operands[1].Type # TOKEN_IDENT THEN withError(a, "InvalidOperand")
    ELSE shiftOr(registerInto(shiftOr(a, 0, opcode),
                              parseRegister(operands[1]), 6),
                 6, last)

\* case INSTRUCTION_RET, INSTRUCTION_RTT
assembleReturn(a, word, operands) ==
    [(IF Len(operands) # 0 THEN withError(a, "InvalidNumArguments") ELSE a)
        EXCEPT !.scratch = word]

\* case INSTRUCTION_JSR
assembleJsr(a, operands) ==
    IF Len(operands) # 1 THEN withError(a, "InvalidNumArguments")
    ELSE IF operands[1].Type # TOKEN_IDENT THEN withError(a, "InvalidOperand")
    ELSE labelReference(shiftOr(shiftOr(a, 0, 4), 1, 1),
                        operands[1], LITERAL_PCOFFSET11, 11)

MemoryOpcode(instruction) ==
    CASE instruction = "LD" -> 2
      [] instruction = "LDI" -> 10
      [] instruction = "LEA" -> 14
      [] instruction = "ST" -> 3
      [] instruction = "STI" -> 11

\* the first operand of LD, LDI, LEA, ST and STI: no shift without a register
memoryRegister(a, token) ==
    IF token.Type # TOKEN_IDENT THEN withError(a, "InvalidOperand")
    ELSE IF parseRegister(token).ok
    THEN shiftOr(a, 3, BitAnd(parseRegister(token).reg, 7))
    ELSE withError(a, "InvalidRegister")

memoryLabel(a, token) ==
    IF token.Type # TOKEN_IDENT THEN withError(a, "InvalidOperand")
    ELSE labelReference(a, token, LITERAL_PCOFFSET9, 9)

\* case INSTRUCTION_LD, INSTRUCTION_LDI, INSTRUCTION_LEA, INSTRUCTION_ST,
\* INSTRUCTION_STI
assembleMemory(a, instruction, operands) ==
    IF Len(operands) # 2 THEN withError(a, "InvalidNumArguments")
    ELSE memoryLabel(
            memoryRegister(shiftOr(a, 0, MemoryOpcode(instruction)),
                           operands[1]),
            operands[2])

offsetOperand(a, token) ==
    IF token.Type # TOKEN_LITERAL THEN withError(a, "InvalidOperand")
    ELSE immediateInto(a, parseLiteral(token, LITERAL_OFFSET6), 6, 63)

\* case INSTRUCTION_LDR, INSTRUCTION_STR
assembleOffset(a, instruction, operands) ==
    IF Len(operands) # 3 THEN withError(a, "InvalidNumArguments")
    ELSE offsetOperand(
            registerOperand(
                registerOperand(
                    shiftOr(a, 0, IF instruction = "LDR" THEN 6 ELSE 7),
                    operands[1]),
                operands[2]),
            operands[3])

\* case INSTRUCTION_NOT
assembleNot(a, operands) ==
    IF Len(operands) # 2 THEN withError(a, "InvalidNumArguments")
    ELSE shiftOr(registerOperand(registerOperand(shiftOr(a, 0, 9),
                                                 operands[1]),
                                 operands[2]),
                 6, 63)

\* case INSTRUCTION_RTI
assembleRti(a, operands) ==
    IF Len(operands) # 0 THEN withError(a, "InvalidNumArguments")
    ELSE [a EXCEPT !.scratch = 32768]

\* scratch |= 0b1111; scratch <<= 12; scratch |= (trap & 0xFF): the vector
\* is at most 0xFF, so that the check `trap > 0xFF` never reports
trapWord(a, trap) == shiftOr(shiftOr(a, 0, 15), 12, BitAnd(trap, 255))

trapLiteral(a, lit) == trapWord(withLiteralError(a, lit), lit.value)

\* case INSTRUCTION_TRAP and its aliases
assembleTrap(a, instruction, operands) ==
    IF instruction = "TRAP"
    THEN IF Len(operands) # 1 THEN withError(a, "InvalidNumArguments")
         ELSE IF operands[1].Type # TOKEN_LITERAL
         THEN withError(a, "InvalidOperand")
         ELSE trapLiteral(a, parseLiteral(operands[1], LITERAL_TRAPVEC8))
    ELSE trapWord(IF Len(operands) # 0
                  THEN withError(a, "InvalidNumArguments") ELSE a,
                  CASE instruction = "GETC" -> 32
                    [] instruction = "OUT" -> 33
                    [] instruction = "PUTS" -> 34
                    [] instruction = "IN" -> 35
                    [] instruction = "PUTSP" -> 36
                    [] instruction = "HALT" -> 37)

\* `switch instruction`
assembleInstruction(a, instruction, operands) ==
    CASE instruction \in {"ADD", "AND"} ->
            assembleOperate(a, instruction, operands)
      [] instruction \in BranchNames -> assembleBranch(a, instruction, operands)
      [] instruction = "JMP" -> assembleBase(a, 12, 0, operands)
      [] instruction = "JMPT" -> assembleBase(a, 12, 1, operands)
      [] instruction = "RET" -> assembleReturn(a, 49600, operands)
      [] instruction = "RTT" -> assembleReturn(a, 49601, operands)
      [] instruction = "JSR" -> assembleJsr(a, operands)
      [] instruction = "JSRR" -> assembleBase(a, 4, 0, operands)
      [] instruction \in {"LD", "LDI", "LEA", "ST", "STI"} ->
            assembleMemory(a, instruction, operands)
      [] instruction \in {"LDR", "STR"} ->
            assembleOffset(a, instruction, operands)
      [] instruction = "NOT" -> assembleNot(a, operands)
      [] instruction = "RTI" -> assembleRti(a, operands)
      [] instruction \in TrapAliases \cup {"TRAP"} ->
            assembleTrap(a, instruction, operands)
      [] OTHER -> a

\* cursor.Line++; cursor.Byte and cursor.LineByte += len(line) + 1
advance(a, text) ==
    [a EXCEPT !.Line = @ + 1, !.LineByte = @ + ByteLen(text) + 1]

\* `if instruction != INSTRUCTION_INVALID { result[program] = scratch;
\* program++ }`
emit(a, instruction) ==
    IF instruction = INSTRUCTION_INVALID THEN a
    ELSE [writeResult(a, a.scratch) EXCEPT
            !.program = @ + 1,
            !.emitted = [x \in DOMAIN a.emitted \cup {a.program % Word} |->
                            IF x = a.program % Word THEN a.LineByte
                            ELSE a.emitted[x]]]

\* `symtable.Symbols[uint16(program)] = cursor.LineByte`
recordSymbol(a) ==
    [a EXCEPT !.Symbols = [x \in DOMAIN a.Symbols \cup {a.program % Word} |->
                              IF x = a.program % Word THEN a.LineByte
                              ELSE a.Symbols[x]]]

checkSizeAbove(a, text) ==
    IF a.phase = "panic" THEN a
    ELSE IF a.program > 65535
    THEN [a EXCEPT !.errs = Append(@, AsmError("OversizedBinary", 0)),
                   !.phase = "aborted"]
    ELSE advance(a, text)

\* `if program >= math.MaxUint16 { ...; return }`, else the advance of the
\* cursor to the next line
checkSize(a, text) ==
    IF a.phase = "panic" THEN a
    ELSE IF a.program >= 65535
    THEN [a EXCEPT !.errs = Append(@, AsmError("OversizedBinary", 0)),
                   !.phase = "aborted"]
    ELSE advance(a, text)

\* the end of the statement, from the symbol table on
endOfStatement(a, instruction, text) ==
    IF a.phase = "panic" THEN a
    ELSE checkSize(emit(recordSymbol(a), instruction), text)

\* `if directive == DIRECTIVE_END { ...; break }`, else the two switches
assembleKeyword(a, tokens, text) ==
    IF directiveOf(tokens) = ".END"
    THEN [(IF Len(operandsOf(tokens)) # 0
           THEN withError(a, "InvalidNumArguments") ELSE a)
            EXCEPT !.phase = "ending"]
    ELSE endOfStatement(
            assembleInstruction(
                assembleDirective(a, directiveOf(tokens), operandsOf(tokens)),
                instructionOf(tokens), operandsOf(tokens)),
            instructionOf(tokens), text)

\* the statement after the declaration of its label
assembleLabelled(a, tokens, text) ==
    IF KeywordAt(tokens) # 1 /\ Len(tokens) = 1 THEN advance(a, text)
    ELSE assembleKeyword(IF KeywordAt(tokens) = 0
                         THEN withError(a, "UnknownIdentifier") ELSE a,
                         tokens, text)

\* the body of the loop over the lines after the lexer, whose final state
\* is x
assembleLexed(a, x, text) ==
    IF Len(x.tokens) = 0 \/ Len(x.errs) > Len(a.errs)
    THEN advance([a EXCEPT !.builder = x.builder, !.errs = x.errs], text)
    ELSE assembleLabelled(
            declareLabel([a EXCEPT !.builder = x.builder, !.errs = x.errs],
                         x.tokens),
            x.tokens, text)

\* one iteration of `for scanner.Scan()` on the line text
assembleLine(a, text) ==
    assembleLexed([a EXCEPT !.scratch = 0, !.source = Append(@, text)],
                  Lex(a.builder, a.errs, text, a.Line), text)

resolveLabelWide(a, ref) ==
    IF ref.Label \notin DOMAIN a.labels
    THEN [a EXCEPT !.errs = Append(@, AsmError("UnknownLabel", ref.Line))]
    ELSE IF a.labels[ref.Label] - ref.Addr - 1 < 0 - 2 ^ (ref.Size - 1)
            \/ a.labels[ref.Label] - ref.Addr - 1 > 2 ^ (ref.Size - 1)
    THEN [a EXCEPT !.errs = Append(@, AsmError("OversizedLabel", ref.Line))]
    ELSE [a EXCEPT !.result =
            MemSet(@, ref.Addr,
                   BitOr(MemAt(a.result, ref.Addr),
                         BitAnd((a.labels[ref.Label] - ref.Addr - 1) % Word,
                                2 ^ ref.Size - 1)))]

resolveLabelFromSite(a, ref) ==
    IF ref.Label \notin DOMAIN a.labels
    THEN [a EXCEPT !.errs = Append(@, AsmError("UnknownLabel", ref.Line))]
    ELSE [a EXCEPT !.result =
            MemSet(@, ref.Addr,
                   BitOr(MemAt(a.result, ref.Addr),
                         BitAnd((a.labels[ref.Label] - ref.Addr) % Word,
                                2 ^ ref.Size - 1)))]

\* one round of `for _, ref := range labelRefs`
resolveLabel(a, ref) ==
    IF ref.Label \notin DOMAIN a.labels
    THEN [a EXCEPT !.errs = Append(@, AsmError("UnknownLabel", ref.Line))]
    ELSE IF a.labels[ref.Label] - ref.Addr - 1 < 0 - 2 ^ (ref.Size - 1)
            \/ a.labels[ref.Label] - ref.Addr - 1 >= 2 ^ (ref.Size - 1)
    THEN [a EXCEPT !.errs = Append(@, AsmError("OversizedLabel", ref.Line))]
    ELSE [a EXCEPT !.result =
            MemSet(@, ref.Addr,
                   BitOr(MemAt(a.result, ref.Addr),
                         BitAnd((a.labels[ref.Label] - ref.Addr - 1) % Word,
                                2 ^ ref.Size - 1)))]

RECURSIVE resolveLabels(_, _)
resolveLabels(a, refs) ==
    IF refs = <<>> THEN a
    ELSE resolveLabels(resolveLabel(a, Head(refs)), Tail(refs))

resolveFillAtLabel(a, ref) ==
    IF ref.Label \notin DOMAIN a.labels
    THEN [a EXCEPT !.errs = Append(@, AsmError("UnknownLabel", ref.Line))]
    ELSE [a EXCEPT !.result = MemSet(@, a.labels[ref.Label], ref.Addr)]

\* one round of `for _, ref := range fillRefs`
resolveFill(a, ref) ==
    IF ref.Label \notin DOMAIN a.labels
    THEN [a EXCEPT !.errs = Append(@, AsmError("UnknownLabel", ref.Line))]
    ELSE [a EXCEPT !.result = MemSet(@, ref.Addr, a.labels[ref.Label])]

RECURSIVE resolveFills(_, _)
resolveFills(a, refs) ==
    IF refs = <<>> THEN a
    ELSE resolveFills(resolveFill(a, Head(refs)), Tail(refs))

\* the addresses of the labels
LabelAddresses(labels) == {labels[n] : n \in DOMAIN labels}

\* `for label, addr := range labels { symtable.Labels[addr] = label }`: the
\* order of the iteration over a map is not specified, so that an address
\* with several labels keeps any one of them
LabelTables(labels) ==
    {t \in [LabelAddresses(labels) -> DOMAIN labels] :
        \A addr \in LabelAddresses(labels) : labels[t[addr]] = addr}

\* the code after the loop over the lines, with the table the iteration
\* over the labels leaves
finish(a, table) ==
    [resolveFills([resolveLabels(a, a.labelRefs) EXCEPT !.Labels = table],
                  a.fillRefs)
        EXCEPT !.phase = "finished"]

----------------------------------------------------------------------------
(* The runs of the assembler: golc3-asm -debug on a source file.  The      *)
(* source files are the sequences of at most MaxLines statements, the      *)
(* sequences of fewer lines that try the lexer, and the single             *)
(* instructions that try the literals.                                     *)

MaxLines == 3

StatementLines ==
    { "L", "M", "BR L", "JSR L", "LD R1, M", ".FILL L",
      ".BLKW #255", ".BLKW #256", ".BLKW #1023", ".BLKW #1024",
      ".ORIG xFFFE", "L .ORIG x0", "HALT", "M ADD R0, R0, #1",
      ".STRINGZ \"ab\"", ".END" }

LexerLines ==
    { "HALT", "HALT ", "HALT\t", "HALT;", "HALT ;", "HALT ; stop",
      "HALT; stop", "ADD R0, R0, R1", "ADD R0, R0, R1 ", "ADD R0, R0, R1;",
      ".STRINGZ \"a;b\"", ".STRINGZ \"a;b\" ", "L", "L ", "L;",
      ";", "; note", "", "\t",
      "@ ", "@", "L-", "HALT é", "ADD R0, R0,", ".STRINGZ \"ab" }

Imm5Literals ==
    { "#-32", "#-31", "#-17", "#-16", "#-1", "#0", "#15", "#16", "#30",
      "#31", "15", "16", "x0", "xF", "x10", "x1F", "x20",
      "0x0F", "0x1F", "0X20" }

TrapLiterals ==
    { "#-256", "#-255", "#-1", "#0", "#37", "#254", "#255", "#256", "255",
      "256", "x0", "x25", "xFF", "x100", "0xFF", "0x100", "0XFF" }

Offset6Literals ==
    { "#-64", "#-63", "#-33", "#-32", "#-1", "#0", "#31", "#32", "#62",
      "#63", "x1F", "x20", "x3F", "x40" }

LiteralLines ==
    {"ADD R0, R1, " \o lit : lit \in Imm5Literals}
    \cup {"TRAP " \o lit : lit \in TrapLiterals}
    \cup {"LDR R0, R1, " \o lit : lit \in Offset6Literals}

\* the operands of the instructions tried: register numbers, then a literal
\* or the label L, or nothing
RegisterTriples == {<<1, 2, 3>>, <<7, 0, 5>>}

RegisterPairs == {<<1, 2>>, <<6, 7>>}

RegisterSingles == {<<2>>, <<7>>}

Imm5Operands == {"#-16", "#-1", "#0", "#15", "x0F"}

Offset6Operands == {"#-32", "#-1", "#0", "#31", "x1F"}

TrapOperands == {"x20", "x25", "xFF", "0x20", "#0", "#37", "#255"}

\* the instructions tried, one record for each mnemonic and operand list
InstructionForms ==
    {[name |-> n, regs |-> r, operand |-> ""] :
        n \in {"ADD", "AND"}, r \in RegisterTriples}
    \cup {[name |-> n, regs |-> r, operand |-> o] :
            n \in {"ADD", "AND"}, r \in RegisterPairs, o \in Imm5Operands}
    \cup {[name |-> n, regs |-> r, operand |-> o] :
            n \in {"LDR", "STR"}, r \in RegisterPairs, o \in Offset6Operands}
    \cup {[name |-> "NOT", regs |-> r, operand |-> ""] : r \in RegisterPairs}
    \cup {[name |-> n, regs |-> r, operand |-> ""] :
            n \in {"JMP", "JMPT", "JSRR"}, r \in RegisterSingles}
    \cup {[name |-> n, regs |-> <<>>, operand |-> ""] :
            n \in {"RET", "RTT", "RTI"} \cup TrapAliases}
    \cup {[name |-> "TRAP", regs |-> <<>>, operand |-> o] : o \in TrapOperands}
    \cup {[name |-> n, regs |-> <<>>, operand |-> "L"] :
            n \in {"BR", "BRn", "BRz", "BRp", "BRnz", "BRzp", "BRnp", "BRnzp",
                   "JSR"}}
    \cup {[name |-> n, regs |-> r, operand |-> "L"] :
            n \in {"LD", "LDI", "LEA", "ST", "STI"}, r \in RegisterSingles}

\* the letter cases and the operand separators tried
LetterCases == {"upper", "lower", "mixed"}

Separators == {", ", ",", " "}

LowerChar(char) ==
    IF char \in UpperLetters
    THEN SubSeq(LowerString, IndexOf(UpperString, char),
                IndexOf(UpperString, char))
    ELSE char

RECURSIVE ToLower(_)
ToLower(str) ==
    IF str = "" THEN ""
    ELSE LowerChar(SubSeq(str, 1, 1)) \o ToLower(SubSeq(str, 2, Len(str)))

\* a mnemonic or register name in the letter case
InCase(str, case) ==
    CASE case = "upper" -> FoldString(str)
      [] case = "lower" -> ToLower(str)
      [] OTHER -> FoldString(SubSeq(str, 1, 1))
                  \o ToLower(SubSeq(str, 2, Len(str)))

\* the name of the register in the letter case (mixed: r)
RegisterText(reg, case) ==
    (IF case = "upper" THEN "R" ELSE "r") \o SubSeq("01234567", reg + 1, reg + 1)

\* the texts of the operands of the form
OperandTexts(form, case) ==
    [i \in 1..Len(form.regs) |-> RegisterText(form.regs[i], case)]
    \o (IF form.operand = "" THEN <<>> ELSE <<form.operand>>)

RECURSIVE Join(_, _)
Join(texts, sep) ==
    IF texts = <<>> THEN ""
    ELSE IF Len(texts) = 1 THEN texts[1]
    ELSE texts[1] \o sep \o Join(Tail(texts), sep)

\* the source line of the form; a form that refers to the label L declares
\* it on the same line
InstructionLine(form, case, sep) ==
    (IF form.operand = "L" THEN "L " ELSE "")
    \o InCase(form.name, case)
    \o (IF OperandTexts(form, case) = <<>> THEN ""
        ELSE " " \o Join(OperandTexts(form, case), sep))

InstructionLines ==
    {InstructionLine(form, case, sep) :
        form \in InstructionForms, case \in LetterCases, sep \in Separators}

\* the lines that may follow the lines read
NextLines(source) ==
    (IF Len(source) < MaxLines
        /\ \A i \in 1..Len(source) : source[i] \in StatementLines
     THEN StatementLines ELSE {})
    \cup (IF Len(source) < MaxLines - 1
             /\ \A i \in 1..Len(source) : source[i] \in LexerLines
          THEN LexerLines ELSE {})
    \cup (IF source = <<>> THEN LiteralLines \cup InstructionLines ELSE {})

\* the variables of AssembleLC3Source before the loop over the lines
InitAssembly ==
    [phase |-> "lines", result |-> <<>>, errs |-> <<>>, labels |-> <<>>,
     labelRefs |-> <<>>, fillRefs |-> <<>>, program |-> 0, builder |-> "",
     Line |-> 1, LineByte |-> 0, scratch |-> 0, Symbols |-> <<>>,
     Labels |-> <<>>, emitted |-> <<>>, written |-> {}, overlap |-> FALSE,
     sites |-> <<>>, source |-> <<>>]

InitAsm ==
    /\ Registers = ResetRegisters
    /\ Program = MEMSPACE_USER
    /\ Procstat = 0
    /\ Stack = MEMSPACE_SUPERVISOR
    /\ Memory = <<>>
    /\ hasKeyboard = FALSE
    /\ Keyboard = <<>>
    /\ hasDisplay = FALSE
    /\ Display = <<>>
    /\ Debugger = NoDebugger
    /\ shouldexit = FALSE
    /\ inREPL = FALSE
    /\ asm = InitAssembly
    /\ requested = FALSE
    /\ crashed = FALSE
    /\ r6IsSSP = FALSE
    /\ log = [kind |-> "init"]
    /\ steps = 0

AsmFrame ==
    UNCHANGED <<Registers, Program, Procstat, Stack, Memory, Keyboard,
                Display, hasKeyboard, hasDisplay, crashed, Debugger,
                shouldexit, inREPL, r6IsSSP, requested, steps>>

\* scanner.Scan() delivers a line; the directive .END leaves the loop
AssembleLine ==
    /\ asm.phase = "lines"
    /\ \E text \in NextLines(asm.source) :
          \E b \in {assembleLine(asm, text)} :
             \E table \in IF b.phase = "ending" THEN LabelTables(b.labels)
                          ELSE {<<>>} :
                /\ asm' = IF b.phase = "ending" THEN finish(b, table) ELSE b
                /\ log' = [kind |-> "line", text |-> text, pre |-> asm]
    /\ AsmFrame

\* scanner.Scan() reports the end of the input
AssembleEnd ==
    /\ asm.phase = "lines"
    /\ \E table \in LabelTables(asm.labels) :
          /\ asm' = finish(asm, table)
          /\ log' = [kind |-> "end", text |-> "", pre |-> asm]
    /\ AsmFrame

NextAsm == AssembleLine \/ AssembleEnd

SpecAsm == InitAsm /\ [][NextAsm]_vars

----------------------------------------------------------------------------
(* Properties of the assembler, checked under SpecAsm.                     *)

\* the assembly returned from the end of the function without an error
Assembled == asm.phase = "finished" /\ asm.errs = <<>>

\* the elements of the sequence
AsmElems(refs) == {refs[i] : i \in 1..Len(refs)}

\* the offset of the reference to its label: t - a - 1
C23_Offset(ref) == asm.labels[ref.Label] - ref.Addr - 1

\* the sites of `.FILL label` hold the address of the label, and the words
\* of the references hold the offset in the low bits and the bits the
\* statement wrote above them
C23_Resolved ==
    /\ \A site \in AsmElems(asm.sites) :
          MemAt(asm.result, site.Addr) = asm.labels[site.Label]
    /\ \A ref \in AsmElems(asm.labelRefs) :
          /\ MemAt(asm.result, ref.Addr) % (2 ^ ref.Size)
                = C23_Offset(ref) % (2 ^ ref.Size)
          /\ MemAt(asm.result, ref.Addr) \div (2 ^ ref.Size)
                = MemAt(log.pre.result, ref.Addr) \div (2 ^ ref.Size)

\* C23 as stated: in every successful assembly every `.FILL label` site
\* holds the address of the label, and every instruction that refers to a
\* label holds (t - a - 1) mod 2^size in its low size bits, the other bits
\* unchanged.
C23_References == Assembled => C23_Resolved

\* C23 amended: the same in every successful assembly in which no address
\* is written by two statements (.ORIG may lead the cursor back over words
\* already written; the offset is then OR-ed into the later word).
C23_ReferencesDisjoint == (Assembled /\ ~asm.overlap) => C23_Resolved

\* a branch forward to a label 255 words after it, a `.FILL label` before
\* its label or a reference backward, assembled without overlap
C23_Witness ==
    /\ Assembled
    /\ ~asm.overlap
    /\ \E ref \in AsmElems(asm.labelRefs) : C23_Offset(ref) = 255

\* the number of the errors of the kind reported for the line
ErrorCount(kind, line) ==
    Cardinality({i \in 1..Len(asm.errs) :
                    asm.errs[i].kind = kind /\ asm.errs[i].line = line})

\* the offset of the reference fits its field
C24_InRange(ref) ==
    /\ C23_Offset(ref) >= 0 - 2 ^ (ref.Size - 1)
    /\ C23_Offset(ref) <= 2 ^ (ref.Size - 1) - 1

\* C24: once the lines are read to the end, a PC-relative reference is free
\* of a label error exactly if its label is declared and t - a - 1 lies in
\* [-2^(size-1), 2^(size-1) - 1]; an undeclared label gives exactly one
\* UnknownLabel error and an offset outside the range exactly one
\* OversizedLabel error.
C24_LabelErrors ==
    asm.phase = "finished" =>
        \A ref \in AsmElems(asm.labelRefs) :
            /\ ref.Size \in {LITERAL_PCOFFSET9, LITERAL_PCOFFSET11}
            /\ IF ref.Label \notin DOMAIN asm.labels
               THEN /\ ErrorCount("UnknownLabel", ref.Line) = 1
                    /\ ErrorCount("OversizedLabel", ref.Line) = 0
               ELSE IF C24_InRange(ref)
               THEN /\ ErrorCount("UnknownLabel", ref.Line) = 0
                    /\ ErrorCount("OversizedLabel", ref.Line) = 0
               ELSE /\ ErrorCount("UnknownLabel", ref.Line) = 0
                    /\ ErrorCount("OversizedLabel", ref.Line) = 1

\* a branch to a label 256 words ahead, one word beyond the field, reported
\* once
C24_Witness ==
    /\ asm.phase = "finished"
    /\ \E ref \in AsmElems(asm.labelRefs) :
          /\ ref.Label \in DOMAIN asm.labels
          /\ ref.Size = LITERAL_PCOFFSET9
          /\ C23_Offset(ref) = 256
          /\ ErrorCount("OversizedLabel", ref.Line) = 1

\* the number the literal denotes: decimal with a sign, or hexadecimal
C25_Value(lit) ==
    IF IndexAnyX(lit) # 0 THEN DecodeHexString(lit) ELSE DecodeInt(lit)[2]

\* the line was the only one read and OversizedLiteral was reported for it
C25_Rejected(text) ==
    /\ asm.source = <<text>>
    /\ ErrorCount("OversizedLiteral", 1) = 1

\* the line was the only one read and no error was reported for it
C25_Accepted(text) ==
    /\ asm.source = <<text>>
    /\ asm.errs = <<>>

\* C25 as stated: a literal operand is accepted exactly when it is in the
\* range of its field and rejected with OversizedLiteral otherwise: imm5
\* accepts exactly -16..15, trapvec8 exactly 0..0xFF, in decimal and in
\* hexadecimal.
C25_LiteralRange ==
    /\ \A lit \in Imm5Literals :
          asm.source = <<"ADD R0, R1, " \o lit>> =>
              IF C25_Value(lit) \in (0 - 16)..15
              THEN C25_Accepted("ADD R0, R1, " \o lit)
              ELSE C25_Rejected("ADD R0, R1, " \o lit)
    /\ \A lit \in TrapLiterals :
          asm.source = <<"TRAP " \o lit>> =>
              IF C25_Value(lit) \in 0..255
              THEN C25_Accepted("TRAP " \o lit)
              ELSE C25_Rejected("TRAP " \o lit)

\* the kinds of the errors of the lexer
LexicalErrors == {"UnexpectedCharacter", "OversizedCharacter", "InvalidString"}

\* the lexer reported an error on the line just read
C26_LexicalError ==
    /\ log.kind = "line"
    /\ Len(Lex(log.pre.builder, log.pre.errs, log.text, log.pre.Line).errs)
          > Len(log.pre.errs)

\* nothing of the line just read was assembled
C26_Skipped ==
    /\ asm.phase = "lines"
    /\ asm.result = log.pre.result
    /\ asm.program = log.pre.program
    /\ asm.labels = log.pre.labels
    /\ asm.Symbols = log.pre.Symbols
    /\ asm.labelRefs = log.pre.labelRefs
    /\ asm.fillRefs = log.pre.fillRefs
    /\ \A i \in (Len(log.pre.errs) + 1)..Len(asm.errs) :
          asm.errs[i].kind \in LexicalErrors

\* the line just read was lexed and assembled as it is after lines without
\* an error, where the lexer starts with nothing pending
C26_Normally ==
    [assembleLine(log.pre, log.text) EXCEPT !.builder = ""]
        = [assembleLine([log.pre EXCEPT !.builder = ""], log.text)
              EXCEPT !.builder = ""]

\* C26 as stated: a line with a lexical error assembles nothing (no word,
\* no move of the cursor, no label, no symbol entry, no error of the
\* assembler), and every line after it is lexed and assembled normally.
C26_LexicalErrorSkips ==
    /\ C26_LexicalError => C26_Skipped
    /\ log.kind = "line" => C26_Normally

\* the tokens of the line just read
C27_Tokens ==
    Lex(log.pre.builder, log.pre.errs, log.text, log.pre.Line).tokens

\* no token but a string holds a whitespace character or a semicolon
C27_CleanTokens ==
    \A i \in 1..Len(C27_Tokens) :
        C27_Tokens[i].Type # TOKEN_STRING =>
            \A j \in 1..Len(C27_Tokens[i].Value) :
                /\ ~IsSpace(SubSeq(C27_Tokens[i].Value, j, j))
                /\ SubSeq(C27_Tokens[i].Value, j, j) # ";"

\* trailing whitespace and trailing comments
C27_Trailers == {" ", "\t", ";", " ;", "; stop", " ; stop"}

\* the line just read is base with a trailer, and it left the tokens, the
\* image, the labels and the errors that base leaves
C27_SameAs(base) ==
    /\ C27_Tokens
          = Lex(log.pre.builder, log.pre.errs, base, log.pre.Line).tokens
    /\ assembleLine(log.pre, log.text).result
          = assembleLine(log.pre, base).result
    /\ assembleLine(log.pre, log.text).labels
          = assembleLine(log.pre, base).labels
    /\ assembleLine(log.pre, log.text).errs
          = assembleLine(log.pre, base).errs

\* C27 as stated: whitespace and `;` outside a string end the token and are
\* in no token value, also as the last character of the line; a trailing
\* whitespace or comment changes neither tokens nor image nor errors.
C27_Terminators ==
    log.kind = "line" =>
        /\ C27_CleanTokens
        /\ \A base \in LexerLines : \A trailer \in C27_Trailers :
              (/\ log.text = base \o trailer
               /\ Lex("", <<>>, base, 1).errs = <<>>)
                  => C27_SameAs(base)

\* the assembly returned with OversizedBinary as its last error, at the line
\* that took the cursor to 0xFFFF or above
C28_Aborted ==
    /\ asm.phase = "aborted"
    /\ asm.errs # <<>>
    /\ asm.errs[Len(asm.errs)].kind = "OversizedBinary"
    /\ ErrorCount("OversizedBinary", 0) = 1
    /\ log.kind = "line"
    /\ log.pre.program < 65535
    /\ asm.source = Append(log.pre.source, log.text)

\* C28: when the program cursor is at 0xFFFF or above after a statement has
\* been assembled, the assembly aborts at once with OversizedBinary and
\* reads no further line; an assembly whose cursor stays below 0xFFFF does
\* not report OversizedBinary.  (A statement that panics has not been
\* assembled.)
C28_OversizedBinary ==
    asm.phase # "panic" =>
        /\ asm.program >= 65535 => C28_Aborted
        /\ asm.program < 65535 => ErrorCount("OversizedBinary", 0) = 0

\* HALT at 0xFFFE takes the cursor to 0xFFFF
C28_Witness ==
    /\ C28_Aborted
    /\ asm.program = 65535
    /\ log.text = "HALT"

\* C29 as stated: after a successful assembly the symbols have an entry for
\* exactly the addresses at which an instruction word was emitted, and the
\* entry is the byte offset at which the line of that instruction starts;
\* addresses filled by directives, named by .ORIG or not written have none.
C29_SymbolsOfInstructions ==
    Assembled =>
        /\ DOMAIN asm.Symbols = DOMAIN asm.emitted
        /\ \A addr \in DOMAIN asm.emitted :
              asm.Symbols[addr] = asm.emitted[addr]

\* C30 as stated: after a successful assembly every declared label L with
\* address a has Labels[a] = L, and Labels has no other entry, also when
\* several labels are declared at one address.
C30_LabelsOfDeclarations ==
    Assembled =>
        /\ \A name \in DOMAIN asm.labels :
              /\ asm.labels[name] \in DOMAIN asm.Labels
              /\ asm.Labels[asm.labels[name]] = name
        /\ \A addr \in DOMAIN asm.Labels :
              /\ asm.Labels[addr] \in DOMAIN asm.labels
              /\ asm.labels[asm.Labels[addr]] = addr

\* C31: every successful assembly yields an image of 65 536 words, that is
\* every word of the image has an index in 0..65535, and every word that no
\* instruction and no .FILL, .BLKW or .STRINGZ directive wrote is zero (the
\* image keeps its non-zero words only).
C31_ImageZeroElsewhere ==
    Assembled =>
        /\ DOMAIN asm.result \subseteq 0..(Word - 1)
        /\ DOMAIN asm.result \subseteq asm.written

\* a successful assembly with a word written at 255 after a block of words
\* left unwritten
C31_Witness ==
    /\ Assembled
    /\ 0 \notin asm.written
    /\ 255 \in asm.written
    /\ MemAt(asm.result, 255) # 0
    /\ \A a \in 0..254 : MemAt(asm.result, a) = 0

\* the opcode of the mnemonic in the instruction table of the LC-3
C32_Opcode(name) ==
    CASE name \in {"ADD"} -> 1
      [] name \in {"AND"} -> 5
      [] FoldString(name) \in BranchNames -> 0
      [] name \in {"JMP", "JMPT", "RET", "RTT"} -> 12
      [] name \in {"JSR", "JSRR"} -> 4
      [] name \in {"LD"} -> 2
      [] name \in {"LDI"} -> 10
      [] name \in {"LDR"} -> 6
      [] name \in {"LEA"} -> 14
      [] name \in {"NOT"} -> 9
      [] name \in {"RTI"} -> 8
      [] name \in {"ST"} -> 3
      [] name \in {"STI"} -> 11
      [] name \in {"STR"} -> 7
      [] OTHER -> 15

\* the number a literal operand denotes
C32_Literal(text) ==
    CASE text = "#-32" -> 0 - 32
      [] text = "#-16" -> 0 - 16
      [] text = "#-1" -> 0 - 1
      [] text = "#0" -> 0
      [] text = "#15" -> 15
      [] text = "x0F" -> 15
      [] text = "#31" -> 31
      [] text = "x1F" -> 31
      [] text \in {"x20", "0x20"} -> 32
      [] text \in {"x25", "#37"} -> 37
      [] text \in {"xFF", "#255"} -> 255

\* the condition bits n, z, p named by the letters of a branch mnemonic
C32_Conditions(name) ==
    (IF \E i \in 3..Len(name) : SubSeq(name, i, i) = "n" THEN 4 ELSE 0)
    + (IF \E i \in 3..Len(name) : SubSeq(name, i, i) = "z" THEN 2 ELSE 0)
    + (IF \E i \in 3..Len(name) : SubSeq(name, i, i) = "p" THEN 1 ELSE 0)

\* bits 11..0 of the instruction of the form at address 0; the label L is
\* at address 0 as well, so that a PC-relative field holds -1
C32_Fields(form) ==
    CASE form.name \in {"ADD", "AND"} /\ Len(form.regs) = 3 ->
            form.regs[1] * 512 + form.regs[2] * 64 + form.regs[3]
      [] form.name \in {"ADD", "AND"} /\ Len(form.regs) = 2 ->
            form.regs[1] * 512 + form.regs[2] * 64 + 32
            + (C32_Literal(form.operand) % 32)
      [] form.name \in {"LDR", "STR"} ->
            form.regs[1] * 512 + form.regs[2] * 64
            + (C32_Literal(form.operand) % 64)
      [] form.name = "NOT" -> form.regs[1] * 512 + form.regs[2] * 64 + 63
      [] form.name \in {"JMP", "JSRR"} -> form.regs[1] * 64
      [] form.name = "JMPT" -> form.regs[1] * 64 + 1
      [] form.name = "RET" -> 7 * 64
      [] form.name = "RTT" -> 7 * 64 + 1
      [] form.name = "RTI" -> 0
      [] form.name = "TRAP" -> C32_Literal(form.operand)
      [] form.name = "GETC" -> 32
      [] form.name = "OUT" -> 33
      [] form.name = "PUTS" -> 34
      [] form.name = "IN" -> 35
      [] form.name = "PUTSP" -> 36
      [] form.name = "HALT" -> 37
      [] form.name = "JSR" -> 2048 + 2047
      [] form.name \in {"LD", "LDI", "LEA", "ST", "STI"} ->
            form.regs[1] * 512 + 511
      [] OTHER -> C32_Conditions(form.name) * 512 + 511

C32_Canonical(form) == C32_Opcode(form.name) * 4096 + C32_Fields(form)

\* the source was one line and the assembler has returned
C32_OneLine == asm.phase = "finished" /\ Len(asm.source) = 1

\* the line of the form assembled to the one word of the form, at address 0
C32_Encoded(form) ==
    /\ asm.errs = <<>>
    /\ asm.written = {0}
    /\ asm.program = 1
    /\ MemAt(asm.result, 0) = C32_Canonical(form)

\* C32 as stated: every well-formed instruction line assembles to exactly
\* one word, the encoding of the instruction in the LC-3 instruction table,
\* whatever the letter case of the mnemonic and of the registers and
\* whether commas or only whitespace separate the operands.
C32_CanonicalEncodings ==
    C32_OneLine =>
        \A form \in InstructionForms, case \in LetterCases, sep \in Separators :
            asm.source[1] = InstructionLine(form, case, sep)
                => C32_Encoded(form)

----------------------------------------------------------------------------
(* The calls of encoding.SignExtend and encoding.ZeroExtend on 16-bit      *)
(* values and the bit counts 1..15.                                        *)

ExtendValues ==
    { 0, 1, 2, \h000F, \h0010, \h001F, \h0025, \h007F, \h0080, \h00FF,
      \h0100, \h01FF, \h0200, \h07FF, \h0800, \h3FFF, \h4000, \h5555,
      \h7FFF, \h8000, \hAAAA, \hF025, \hFF00, \hFFFE, \hFFFF }

BitCounts == 1..15

InitExtend ==
    /\ Registers = ResetRegisters
    /\ Program = MEMSPACE_USER
    /\ Procstat = 0
    /\ Stack = MEMSPACE_SUPERVISOR
    /\ Memory = <<>>
    /\ hasKeyboard = FALSE
    /\ Keyboard = <<>>
    /\ hasDisplay = FALSE
    /\ Display = <<>>
    /\ Debugger = NoDebugger
    /\ shouldexit = FALSE
    /\ inREPL = FALSE
    /\ asm = NoAssembly
    /\ requested = FALSE
    /\ crashed = FALSE
    /\ r6IsSSP = FALSE
    /\ log = [kind |-> "init"]
    /\ steps = 0

\* one call of each function on the same arguments
Extend ==
    /\ \E value \in ExtendValues, bitcount \in BitCounts :
          log' = [kind |-> "extend", value |-> value, bitcount |-> bitcount,
                  zero |-> ZeroExtend(value, bitcount),
                  sign |-> SignExtend(value, bitcount)]
    /\ UNCHANGED <<Registers, Program, Procstat, Stack, Memory, Keyboard,
                   Display, hasKeyboard, hasDisplay, crashed, Debugger,
                   shouldexit, inREPL, r6IsSSP, requested, steps, asm>>

NextExtend == Extend

SpecExtend == InitExtend /\ [][NextExtend]_vars

\* C33 as stated: for every 16-bit value and every bit count in 1..15,
\* ZeroExtend(value, bitcount) is value & ((1 << bitcount) - 1): the bits at
\* the positions bitcount and above are cleared, the low bits are kept.
C33_ZeroExtendMasks ==
    log.kind = "extend" =>
        log.zero = BitAnd(log.value, 2 ^ log.bitcount - 1)

----------------------------------------------------------------------------
(* Two consecutive steps of the machine: SpecTrip runs the machine of Spec *)
(* and keeps, with the record of a step, the record of the action before   *)
(* it, so that the first instruction of a handler can be compared with the *)
(* state the exception entry found.                                        *)

\* what is kept of the action before
Brief(l) ==
    IF l.kind = "step"
    THEN [kind |-> "step", at |-> l.at, instr |-> l.instr,
          opcode |-> l.opcode, pre |-> l.pre, exec |-> l.exec,
          raised |-> l.raised, end |-> l.end]
    ELSE [kind |-> l.kind]

\* Machine.Step on the machine m, as MachineStep, with the record of the
\* action before
MachineStepAfter(m, before) ==
    \E f \in {read(m, m.Program)} :
        \E x \in {decodeExecute(f)} :
            \E k \in {keyboardInterrupt(x)} :
                \E r \in {DebuggerStep(k)} :
                    /\ Install(r)
                    /\ log' = StepLog(m, f, x, k, r) @@ [before |-> before]

\* one iteration of the loop `for !shouldexit { mc.Step() }`
StepAfter ==
    /\ ~crashed
    /\ ~shouldexit
    /\ steps < MaxSteps
    /\ MachineStepAfter(Machine, Brief(log))
    /\ steps' = steps + 1
    /\ UNCHANGED <<hasKeyboard, hasDisplay, asm>>

NextTrip == StepAfter \/ KeyPress

SpecTrip == Init /\ [][NextTrip]_vars

\* the step before made one exception or interrupt entry, and this step
\* executed RTI, the first instruction of the handler, and returned
C34_Case ==
    /\ log.kind = "step"
    /\ log.before.kind = "step"
    /\ Len(log.before.raised) = 1
    /\ log.opcode = OP_RTI
    /\ log.at = log.before.end
    /\ ~log.exec.crashed

\* the entry was made by the instruction (a fault), not by the keyboard
\* interrupt check
C34_Fault == Len(log.before.exec.raised) = 1

\* program, procstat, R6 and stack immediately before the entry
C34_Before ==
    [Program |-> log.before.raised[1].program,
     Procstat |-> log.before.raised[1].procstat,
     R6 |-> IF C34_Fault THEN log.before.pre.Registers[6]
            ELSE log.before.exec.Registers[6],
     Stack |-> IF C34_Fault THEN log.before.pre.Stack
               ELSE log.before.exec.Stack]

\* program, procstat, R6 and stack as RTI left them
C34_After ==
    [Program |-> log.exec.Program, Procstat |-> log.exec.Procstat,
     R6 |-> log.exec.Registers[6], Stack |-> log.exec.Stack]

\* C34 as stated: an exception or interrupt entry followed by the RTI of the
\* handler is a round trip; from user mode and from supervisor mode, RTI
\* executed with R6 as the entry left it restores program, procstat, R6 and
\* stack to their values immediately before the entry.
C34_RoundTrip == C34_Case => C34_After = C34_Before

----------------------------------------------------------------------------
(* Properties of single steps, checked under Spec.                         *)

\* the instruction of the step raised an exception (privilege violation or
\* illegal opcode) and the two pushes of the entry returned
C35_Fault ==
    /\ IsStep
    /\ Len(log.exec.raised) = 1
    /\ ~log.exec.crashed

\* C35 as stated: for every exception raised by an instruction at address a
\* (RTI or JMPT/RTT in user mode, reserved opcode) the program counter saved
\* on the stack, the second word pushed, is a + 1, whatever the operands.
C35_SavedProgram ==
    C35_Fault =>
        /\ Len(log.exec.writes) = 2
        /\ log.exec.writes[2].addr = Sub16(log.pre.Registers[6], 4)
        /\ log.exec.writes[2].value = Add16(log.at, 1)

\* C36 as stated: a step makes at most one exception or interrupt entry; in
\* no step are both an instruction fault and a keyboard interrupt raised
\* (every entry pushes one pair procstat, program).
C36_OneEntryPerStep ==
    IsStep => Len(log.raised) <= 1

----------------------------------------------------------------------------
(* Assembling and then executing: SpecAgree assembles a source as SpecAsm  *)
(* does and lets a machine execute one step on the image, from address 0.  *)

\* the values of R1 tried
AgreeBases == {16, \hFFFF}

\* a machine set up field by field, in user mode, about to execute the word
\* at address 0
InitAgree ==
    \E base \in AgreeBases :
        /\ Registers = [i \in 0..7 |->
                           CASE i = 1 -> base
                             [] i = 6 -> \hFE00
                             [] OTHER -> 0]
        /\ Program = 0
        /\ Procstat = FLAG_ZERO
        /\ Stack = SupervisorStack
        /\ Memory = <<>>
        /\ hasKeyboard = FALSE
        /\ Keyboard = <<>>
        /\ hasDisplay = FALSE
        /\ Display = <<>>
        /\ Debugger = NoDebugger
        /\ shouldexit = FALSE
        /\ inREPL = FALSE
        /\ asm = InitAssembly
        /\ requested = FALSE
        /\ crashed = FALSE
        /\ r6IsSSP = FALSE
        /\ log = [kind |-> "init"]
        /\ steps = 0

\* the image of a successful assembly becomes the memory of the machine,
\* which executes one step
Execute ==
    /\ asm.phase = "finished"
    /\ asm.errs = <<>>
    /\ steps = 0
    /\ MachineStep([Machine EXCEPT !.Memory = asm.result])
    /\ steps' = steps + 1
    /\ UNCHANGED <<hasKeyboard, hasDisplay, asm>>

NextAgree == AssembleLine \/ AssembleEnd \/ Execute

SpecAgree == InitAgree /\ [][NextAgree]_vars

\* the source was the line alone and the machine has executed its word
C37_Executed(text) ==
    /\ log.kind = "step"
    /\ log.at = 0
    /\ asm.source = <<text>>
    /\ ~crashed

\* C37 as stated: for every decimal or hexadecimal literal k the assembler
\* accepts for an imm5 or offset6 field, the sign extension of the encoded
\* field at execution time is k: the word of `ADD R0, R1, #k` sets
\* R0 = (R1 + k) mod 2^16 and the word of `LDR R0, R1, #k` loads from
\* (R1 + k) mod 2^16.
C37_SignedLiterals ==
    /\ \A lit \in Imm5Literals :
          C37_Executed("ADD R0, R1, " \o lit) =>
              Registers[0] = (log.pre.Registers[1] + C25_Value(lit)) % Word
    /\ \A lit \in Offset6Literals :
          C37_Executed("LDR R0, R1, " \o lit) =>
              /\ Len(log.reads) = 2
              /\ log.reads[2].addr
                    = (log.pre.Registers[1] + C25_Value(lit)) % Word

\* C38 as stated: Step is total; for every machine state and instruction
\* word, with or without a keyboard or a display attached, the step
\* completes without aborting, a store or an exception push at DDR with no
\* display attached included.
C38_StepTotal == IsStep => ~crashed

----------------------------------------------------------------------------
(* Further properties of the assembler, checked under SpecAsm.             *)

\* C39 as stated: the assembler never writes outside the image of 65 536
\* words; every write of an instruction, .FILL, .BLKW or .STRINGZ has an
\* index in 0..65535, and a program that would extend past the end of the
\* address space ends with OversizedBinary, not with an out-of-bounds write
\* or an abort.
C39_WritesInsideImage ==
    /\ asm.phase # "panic"
    /\ asm.written \subseteq 0..(Word - 1)
    /\ asm.program > Word - 1 => C28_Aborted

----------------------------------------------------------------------------
(* The command `reset` of the REPL, checked under SpecRepl.                *)

\* the command just run is `reset`
C40_Reset == log.kind = "command" /\ log.line = <<W("reset")>>

\* C40 as stated: `reset` returns the machine to the state it had right
\* after the program was first loaded, from whatever state the command is
\* issued; registers, program, procstat and stack take their reset values
\* and every memory word is the word of the original binary image.
C40_ResetRestoresImage ==
    C40_Reset =>
        /\ Registers = ResetRegisters
        /\ Program = MEMSPACE_SUPERVISOR
        /\ Procstat = PrivBit
        /\ Stack = MEMSPACE_DEVICES
        /\ Memory = ReplImage

====
